---- MODULE Spec2Model ----
(***************************************************************************)
(* Verification model of the vrp solver core:                              *)
(*   - the insertion cache (vrp-core/src/construction/heuristics/cache.rs) *)
(*   - the island evolution strategy (solver/evolution/run_branches.rs)    *)
(***************************************************************************)
EXTENDS Integers, Sequences, FiniteSets, TLC

(***************************************************************************)
(* Bounds of the model.                                                    *)
(***************************************************************************)
NumActors == 2
NumJobs == 1
MaxPosition == 0
MaxLoad == 1
NumSlots == 2
MaxEvals == 2
MaxRemoves == 1
NumBranches == 2
ChannelCapacity == 1
MaxChunks == 2
MaxFitness == 1
MaxGenerations == 2
MaxLimit == 1
MaxTicks == 2
MaxActivities == 3
MaxDemand == 1
MaxCapacity == 2
MaxDispatch == 3
MaxValue == 2
MaxRoutes == 2
MaxStops == 4
MaxLocation == 1
MaxDistanceLimit == 2
MaxAccepts == 2
LoadBits == 3

Actors == 1..NumActors
Jobs == 1..NumJobs
Positions == 0..MaxPosition
RouteStates == 0..MaxLoad
Slots == 1..NumSlots
Branches == 1..NumBranches
Fitness == 0..MaxFitness

(***************************************************************************)
(* Option<T>: None is the empty sequence, Some(v) the one-element sequence.*)
(***************************************************************************)
None == << >>

Some(v) == << v >>

IsSome(o) == Len(o) = 1

Unwrap(o) == o[1]

(***************************************************************************)
(* HashMap<K, V>: a function over the set of its keys.                     *)
(***************************************************************************)
EmptyMap == [k \in {} |-> 0]

MapGet(map, key) == IF key \in DOMAIN map THEN Some(map[key]) ELSE None

MapInsert(map, key, value) ==
    [k \in (DOMAIN map) \cup {key} |-> IF k = key THEN value ELSE map[k]]

MapRemoveBroken(map, key) == map

MapRemove(map, key) == [k \in (DOMAIN map) \ {key} |-> map[k]]

(***************************************************************************)
(* Cache keys.  A Single job is its own only Single.                       *)
(***************************************************************************)
RouteCacheKey(actor, job) == << actor, job >>

ActivityCacheKey(actor, job, single, position) == << actor, job, single, position >>

NoJob == 0

Targets == Jobs \cup {NoJob}

RouteKeys == { RouteCacheKey(a, j) : a \in Actors, j \in Jobs }

get_route_cache_key(route_ctx, job) == RouteCacheKey(route_ctx.actor, job)

get_activity_cache_key(route_ctx, activity_ctx) ==
    IF activity_ctx.target = NoJob
    THEN None
    ELSE Some(ActivityCacheKey(route_ctx.actor, activity_ctx.target,
                               activity_ctx.target, activity_ctx.position))

(***************************************************************************)
(* The constraint pipeline: a function of the route context and the        *)
(* candidate (capacity feasibility of section 4.2, load as the cost).      *)
(***************************************************************************)
Capacity == 1

Demand(job) == 1

CapacityCode == 2

PipelineHardRoute(route_ctx, job) ==
    IF route_ctx.load + Demand(job) > Capacity
    THEN Some([code |-> CapacityCode])
    ELSE None

PipelineSoftRoute(route_ctx, job) == route_ctx.load * 10

PipelineHardActivity(route_ctx, activity_ctx) ==
    IF activity_ctx.target # NoJob /\ route_ctx.load + Demand(activity_ctx.target) > Capacity
    THEN Some([code |-> CapacityCode, stopped |-> TRUE])
    ELSE None

PipelineSoftActivity(route_ctx, activity_ctx) ==
    route_ctx.load * 10 + activity_ctx.position

(***************************************************************************)
(* SolutionCache and JobCache.                                             *)
(***************************************************************************)
MapNames == {"hard_route", "soft_route", "hard_activity", "soft_activity"}

SolutionCacheDefault ==
    [hard_route |-> EmptyMap, soft_route |-> EmptyMap,
     hard_activity |-> EmptyMap, soft_activity |-> EmptyMap]

JobCacheDefault ==
    [hard_route |-> None, soft_route |-> None,
     hard_activity |-> None, soft_activity |-> None]

\* data.iter().filter(|(key, _)| actors.contains(*key)).collect()
clone_only_with_all(actors, data) == data

clone_only_with(actors, data) ==
    [a \in (DOMAIN data) \cap actors |-> data[a]]

SolutionCache_clone_only_with(self, actors) ==
    [hard_route |-> clone_only_with(actors, self.hard_route),
     soft_route |-> clone_only_with(actors, self.soft_route),
     hard_activity |-> clone_only_with(actors, self.hard_activity),
     soft_activity |-> clone_only_with(actors, self.soft_activity)]

\* destination.entry(get_actor(&key)).or_insert_with(..).insert(key, value)
sync_entry_keep_old(destination, key, value) ==
    LET actor == key[1]
        inner == IF actor \in DOMAIN destination THEN destination[actor] ELSE EmptyMap
    IN  IF key \in DOMAIN inner
        THEN destination
        ELSE MapInsert(destination, actor, MapInsert(inner, key, value))

\* an entry filed under an actor other than the one its key names
sync_entry_misfiled(destination, key, value) ==
    LET actor == CHOOSE a \in Actors : a # key[1]
        inner == IF actor \in DOMAIN destination THEN destination[actor] ELSE EmptyMap
    IN  MapInsert(destination, actor, MapInsert(inner, key, value))

sync_entry(destination, key, value) ==
    LET actor == key[1]
        inner == IF actor \in DOMAIN destination THEN destination[actor] ELSE EmptyMap
    IN  MapInsert(destination, actor, MapInsert(inner, key, value))

RECURSIVE sync_fold(_, _, _)
sync_fold(destination, map, keys) ==
    IF keys = {}
    THEN destination
    ELSE LET key == CHOOSE k \in keys : TRUE
         IN  sync_fold(sync_entry(destination, key, map[key]), map, keys \ {key})

sync_maps(destination, other) ==
    IF IsSome(other)
    THEN sync_fold(destination, Unwrap(other), DOMAIN Unwrap(other))
    ELSE destination

\* self.job.<map>.get_or_insert_with(|| HashMap::with_capacity(16)).insert(key, result)
job_insert(opt_map, key, value) ==
    Some(MapInsert(IF IsSome(opt_map) THEN Unwrap(opt_map) ELSE EmptyMap, key, value))

\* self.solution.and_then(|s| s.<map>.get(actor).and_then(|cache| cache.get(&key)))
solution_lookup_flatten(has_solution, map, actor, key) ==
    IF ~has_solution
    THEN None
    ELSE LET cache == MapGet(map, actor)
         IN  IF IsSome(cache)
             THEN LET hit == MapGet(Unwrap(cache), key)
                  IN  IF IsSome(hit) /\ Unwrap(hit) = None THEN None ELSE hit
             ELSE None

solution_lookup(has_solution, map, actor, key) ==
    IF ~has_solution
    THEN None
    ELSE LET cache == MapGet(map, actor)
         IN  IF IsSome(cache) THEN MapGet(Unwrap(cache), key) ELSE None

(***************************************************************************)
(* State.                                                                  *)
(***************************************************************************)
VARIABLES
    route,      \* route[a]: the load of the route of actor a (its RouteContext)
    solution,   \* insertion_ctx.solution.cache : SolutionCache
    caches,     \* caches[s]: an InsertionCache / a JobCache moved out of it
    evals,      \* number of evaluate_* calls made so far
    removes,    \* number of route mutations made so far
    last,       \* the last operation, its arguments and its result
    root,            \* run_evolution: position, chunks and is_improved of the collector
    root_population, \* refinement_ctx.population of the root (fitness values, lower is better)
    telemetry,       \* the is_improved values handed to telemetry.on_generation
    channel,         \* messages in flight on the bounded mpsc channel
    receiver_alive,  \* root_receiver exists and has not been dropped
    is_terminated,   \* the AtomicBool shared by the branches of a super-generation
    workers,         \* workers[b]: the task spawned by create_branch
    outer_quota,     \* refinement_ctx.quota (the original quota) is reached
    time_up,         \* the time limit of the termination has passed
    received,        \* individuals the collector has received so far
    merge_improves,  \* a message of this super-generation beats the root's best
    straight,        \* RunStraight::run: the offspring and the calls of the current generation
    builder,         \* evolution::Builder: max_generations, max_time, min_cv, config.termination
    build_result,    \* what Builder::build returned, once it was called
    term,            \* the calls made to the built termination and the last answer
    route_context,   \* RouteContext: tour, marker intervals, vehicle capacity, route state
    evaluation,      \* the last call of a capacity constraint or of merge: arguments and result
    shift,           \* a vehicle shift with dispatch limits: the limits, the tours and the unassigned jobs
    solution_ctx     \* SolutionContext of a value objective: the route values and the state map's entry

cacheVars == << route, solution, caches, evals, removes, last >>

branchVars == << root, root_population, telemetry, channel, receiver_alive, is_terminated,
                 workers, outer_quota, time_up, received, merge_improves >>

straightVars == << straight >>

builderVars == << builder, build_result, term >>

capacityVars == << route_context, evaluation >>

dispatchVars == << shift >>

valueVars == << solution_ctx >>

nonCacheVars == << branchVars, straightVars, builderVars, capacityVars, dispatchVars, valueVars >>

nonBranchVars == << cacheVars, straightVars, builderVars, capacityVars, dispatchVars, valueVars >>

nonStraightVars == << cacheVars, channel, receiver_alive, is_terminated, workers,
                      received, merge_improves, builderVars, capacityVars, dispatchVars,
                      valueVars >>

nonBuilderVars == << cacheVars, branchVars, straightVars, capacityVars, dispatchVars, valueVars >>

nonCapacityVars == << cacheVars, branchVars, straightVars, builderVars, dispatchVars, valueVars >>

nonDispatchVars == << cacheVars, branchVars, straightVars, builderVars, capacityVars, valueVars >>

nonValueVars == << cacheVars, branchVars, straightVars, builderVars, dispatchVars >>

vars == << cacheVars, branchVars, straightVars, builderVars, capacityVars, dispatchVars,
          valueVars >>

NoOp == [op |-> "init", slot |-> 0, actor |-> 0, key |-> None, called |-> FALSE,
         result |-> None, job |-> JobCacheDefault, actors |-> {}, before |-> None]

RouteCtx(a) == [actor |-> a, load |-> route[a]]

\* An InsertionCache made by InsertionCache::new holds &insertion_ctx.solution.cache:
\* while it lives nothing can take &mut insertion_ctx.
Borrowed(except) == \E s \in Slots \ except : caches[s].state = "new"

CacheVarsInit ==
    /\ route = [a \in Actors |-> 0]
    /\ solution = SolutionCacheDefault
    /\ caches = [s \in Slots |-> [state |-> "free", job |-> JobCacheDefault]]
    /\ evals = 0
    /\ removes = 0
    /\ last = NoOp

BranchVarsInit ==
    /\ root = [pc |-> "loop", chunks |-> 0, is_improved |-> FALSE,
               on_result |-> 0, returned |-> None]
    /\ root_population = {MaxFitness}
    /\ telemetry = << >>
    /\ channel = << >>
    /\ receiver_alive = FALSE
    /\ is_terminated = FALSE
    /\ workers = [b \in Branches |-> [pc |-> "none", population |-> {}, msg |-> None,
                                         generation |-> 1]]
    /\ outer_quota = FALSE
    /\ time_up = FALSE
    /\ received = {}
    /\ merge_improves = FALSE

StraightVarsInit == straight = [offspring |-> {}, calls |-> << >>]

\* Builder::new(heuristic, population, strategy, termination, methods, environment)
BuilderVarsInit ==
    /\ builder = [max_generations |-> None, max_time |-> None, min_cv |-> None,
                  termination |-> [kind |-> "Given"]]
    /\ build_result = None
    /\ term = [ticks |-> 0, calls |-> << >>, ctx |-> None, result |-> FALSE]

\* Single: the demand dimension (None when the job has none), whether a multi
\* trip takes it for a marker job and whether it is a piece of a Multi job
Single_new(demand, marker, of_multi) ==
    [demand |-> demand, marker |-> marker, of_multi |-> of_multi]

\* an activity of a tour: the single job it serves, None for the depot
Activity_new(job) == [job |-> job]

\* state keys of the capacity module and of the balance objectives
CURRENT_CAPACITY_KEY == "current"

MAX_FUTURE_CAPACITY_KEY == "max_future"

MAX_PAST_CAPACITY_KEY == "max_past"

MAX_LOAD_KEY == "max_load"

BALANCE_MAX_LOAD_KEY == "balance_max_load"

BALANCE_ACTIVITY_KEY == "balance_activity"

\* RouteState with no value put yet
RouteState_default(total) ==
    [current |-> [i \in 1..total |-> None],
     max_past |-> [i \in 1..total |-> None],
     max_future |-> [i \in 1..total |-> None],
     max_load |-> None,
     balance_max_load |-> None,
     balance_activity |-> None]

\* accepts and values count the accept_route_state calls of the capacity module
\* and of the generic value constraints, last names the module called last and
\* written collects (module, key) for every state key a call has put
RouteContext_new(tour, intervals, capacity) ==
    [tour |-> tour, intervals |-> intervals, capacity |-> capacity,
     state |-> RouteState_default(Len(tour)), accepts |-> 0,
     values |-> 0, last |-> "none", written |-> {}]

\* a route with the start activity only, no multi trip and no capacity dimension
CapacityVarsInit ==
    /\ route_context = RouteContext_new(<< Activity_new(None) >>, None, None)
    /\ evaluation = [op |-> "none"]

\* create_empty_insertion_context().solution: no route and an empty state map
ValueVarsInit == solution_ctx = [routes |-> << >>, state |-> None, last |-> "new"]

\* the vehicle ids and the delivery jobs of create_problem_with_dispatch_5jobs
DispatchVehicles == {"v1", "v2", "v3", "v4", "v5"}

DispatchJobs == {"job1", "job2", "job3", "job4", "job5"}

\* a shift without dispatch limits, no tour and every job unassigned
DispatchVarsInit ==
    shift = [limits |-> << >>, tours |-> [v \in DispatchVehicles |-> None],
             unassigned |-> DispatchJobs]

CacheInit ==
    CacheVarsInit /\ BranchVarsInit /\ StraightVarsInit /\ BuilderVarsInit /\ CapacityVarsInit
      /\ DispatchVarsInit /\ ValueVarsInit

\* InsertionCache::new(insertion_ctx)
InsertionCache_new(s) ==
    /\ caches[s].state = "free"
    /\ \A t \in Slots : t < s => caches[t].state # "free"
    /\ caches' = [caches EXCEPT ![s] = [state |-> "new", job |-> JobCacheDefault]]
    /\ last' = [NoOp EXCEPT !.op = "new"]
    /\ UNCHANGED << route, solution, evals, removes >>
    /\ UNCHANGED nonCacheVars

\* InsertionCache::empty(constraint)
InsertionCache_empty(s) ==
    /\ caches[s].state = "free"
    /\ \A t \in Slots : t < s => caches[t].state # "free"
    /\ caches' = [caches EXCEPT ![s] = [state |-> "empty", job |-> JobCacheDefault]]
    /\ last' = [NoOp EXCEPT !.op = "empty"]
    /\ UNCHANGED << route, solution, evals, removes >>
    /\ UNCHANGED nonCacheVars

\* let job = cache.job;  (the InsertionCache is consumed, its JobCache lives on)
TakeJob(s) ==
    /\ caches[s].state \in {"new", "empty"}
    /\ caches' = [caches EXCEPT ![s].state = "taken"]
    /\ last' = [NoOp EXCEPT !.op = "take"]
    /\ UNCHANGED << route, solution, evals, removes >>
    /\ UNCHANGED nonCacheVars

evaluate_hard_route(s, a, job) ==
    /\ caches[s].state \in {"new", "empty"}
    /\ evals < MaxEvals
    /\ evals' = evals + 1
    /\ LET route_ctx == RouteCtx(a)
           actor == route_ctx.actor
           key == get_route_cache_key(route_ctx, job)
           hit == solution_lookup(caches[s].state = "new", solution.hard_route, actor, key)
       IN  IF IsSome(hit)
           THEN /\ last' = [NoOp EXCEPT !.op = "evaluate_hard_route", !.actor = actor,
                                        !.key = Some(key), !.called = FALSE,
                                        !.result = Unwrap(hit), !.slot = s]
                /\ UNCHANGED caches
           ELSE LET result == PipelineHardRoute(route_ctx, job)
                IN  /\ caches' = [caches EXCEPT ![s].job.hard_route = job_insert(@, key, result)]
                    /\ last' = [NoOp EXCEPT !.op = "evaluate_hard_route", !.actor = actor,
                                            !.key = Some(key), !.called = TRUE,
                                            !.result = result, !.slot = s]
    /\ UNCHANGED << route, solution, removes >>
    /\ UNCHANGED nonCacheVars

evaluate_soft_route(s, a, job) ==
    /\ caches[s].state \in {"new", "empty"}
    /\ evals < MaxEvals
    /\ evals' = evals + 1
    /\ LET route_ctx == RouteCtx(a)
           actor == route_ctx.actor
           key == get_route_cache_key(route_ctx, job)
           hit == solution_lookup(caches[s].state = "new", solution.soft_route, actor, key)
       IN  IF IsSome(hit)
           THEN /\ last' = [NoOp EXCEPT !.op = "evaluate_soft_route", !.actor = actor,
                                        !.key = Some(key), !.called = FALSE,
                                        !.result = Unwrap(hit), !.slot = s]
                /\ UNCHANGED caches
           ELSE LET result == PipelineSoftRoute(route_ctx, job)
                IN  /\ caches' = [caches EXCEPT ![s].job.soft_route = job_insert(@, key, result)]
                    /\ last' = [NoOp EXCEPT !.op = "evaluate_soft_route", !.actor = actor,
                                            !.key = Some(key), !.called = TRUE,
                                            !.result = result, !.slot = s]
    /\ UNCHANGED << route, solution, removes >>
    /\ UNCHANGED nonCacheVars

evaluate_hard_activity(s, a, target, position) ==
    /\ caches[s].state \in {"new", "empty"}
    /\ evals < MaxEvals
    /\ evals' = evals + 1
    /\ LET route_ctx == RouteCtx(a)
           activity_ctx == [target |-> target, position |-> position]
           okey == get_activity_cache_key(route_ctx, activity_ctx)
           hit == IF IsSome(okey)
                  THEN solution_lookup(caches[s].state = "new", solution.hard_activity,
                                       route_ctx.actor, Unwrap(okey))
                  ELSE None
           entry == [NoOp EXCEPT !.op = "evaluate_hard_activity", !.actor = a,
                                 !.key = okey, !.slot = s]
       IN  IF IsSome(okey) /\ IsSome(hit)
           THEN /\ last' = [entry EXCEPT !.called = FALSE, !.result = Unwrap(hit)]
                /\ UNCHANGED caches
           ELSE LET result == PipelineHardActivity(route_ctx, activity_ctx)
                IN  /\ last' = [entry EXCEPT !.called = TRUE, !.result = result]
                    /\ IF IsSome(okey)
                       THEN caches' = [caches EXCEPT ![s].job.hard_activity =
                                                         job_insert(@, Unwrap(okey), result)]
                       ELSE UNCHANGED caches
    /\ UNCHANGED << route, solution, removes >>
    /\ UNCHANGED nonCacheVars

evaluate_soft_activity(s, a, target, position) ==
    /\ caches[s].state \in {"new", "empty"}
    /\ evals < MaxEvals
    /\ evals' = evals + 1
    /\ LET route_ctx == RouteCtx(a)
           activity_ctx == [target |-> target, position |-> position]
           okey == get_activity_cache_key(route_ctx, activity_ctx)
           hit == IF IsSome(okey)
                  THEN solution_lookup(caches[s].state = "new", solution.soft_activity,
                                       route_ctx.actor, Unwrap(okey))
                  ELSE None
           entry == [NoOp EXCEPT !.op = "evaluate_soft_activity", !.actor = a,
                                 !.key = okey, !.slot = s]
       IN  IF IsSome(okey) /\ IsSome(hit)
           THEN /\ last' = [entry EXCEPT !.called = FALSE, !.result = Unwrap(hit)]
                /\ UNCHANGED caches
           ELSE LET result == PipelineSoftActivity(route_ctx, activity_ctx)
                IN  /\ last' = [entry EXCEPT !.called = TRUE, !.result = result]
                    /\ IF IsSome(okey)
                       THEN caches' = [caches EXCEPT ![s].job.soft_activity =
                                                         job_insert(@, Unwrap(okey), result)]
                       ELSE UNCHANGED caches
    /\ UNCHANGED << route, solution, removes >>
    /\ UNCHANGED nonCacheVars

\* InsertionCache::synchronize(insertion_ctx, job): the JobCache is moved in.
synchronize(s) ==
    /\ caches[s].state \in {"new", "empty", "taken"}
    /\ ~Borrowed({s})
    /\ LET job == caches[s].job
       IN  /\ solution' =
                [hard_route |-> sync_maps(solution.hard_route, job.hard_route),
                 soft_route |-> sync_maps(solution.soft_route, job.soft_route),
                 hard_activity |-> sync_maps(solution.hard_activity, job.hard_activity),
                 soft_activity |-> sync_maps(solution.soft_activity, job.soft_activity)]
           /\ last' = [NoOp EXCEPT !.op = "synchronize", !.slot = s, !.job = job, !.before = Some(solution)]
    /\ caches' = [caches EXCEPT ![s] = [state |-> "done", job |-> JobCacheDefault]]
    /\ UNCHANGED << route, evals, removes >>
    /\ UNCHANGED nonCacheVars

\* A route is mutated (a job inserted or removed) and the caller purges the
\* actor's slice: InsertionCache::remove(insertion_ctx, actor).
remove(actor, load) ==
    /\ ~Borrowed({})
    /\ removes < MaxRemoves
    /\ removes' = removes + 1
    /\ route' = [route EXCEPT ![actor] = load]
    /\ solution' =
         [hard_route |-> MapRemove(solution.hard_route, actor),
          soft_route |-> MapRemove(solution.soft_route, actor),
          hard_activity |-> MapRemove(solution.hard_activity, actor),
          soft_activity |-> MapRemove(solution.soft_activity, actor)]
    /\ last' = [NoOp EXCEPT !.op = "remove", !.actor = actor, !.before = Some(solution)]
    /\ UNCHANGED << caches, evals >>
    /\ UNCHANGED nonCacheVars

\* solution.cache.clone_only_with(&actors): the projection is the result.
clone_only_with_op(actors) ==
    /\ last' = [NoOp EXCEPT !.op = "clone_only_with", !.actors = actors,
                            !.result = SolutionCache_clone_only_with(solution, actors),
                            !.before = Some(solution)]
    /\ UNCHANGED << route, solution, caches, evals, removes >>
    /\ UNCHANGED nonCacheVars

CacheNext ==
    \/ \E s \in Slots : InsertionCache_new(s)
    \/ \E s \in Slots : InsertionCache_empty(s)
    \/ \E s \in Slots : TakeJob(s)
    \/ \E s \in Slots, a \in Actors, j \in Jobs : evaluate_hard_route(s, a, j)
    \/ \E s \in Slots, a \in Actors, j \in Jobs : evaluate_soft_route(s, a, j)
    \/ \E s \in Slots, a \in Actors, t \in Targets, p \in Positions :
           evaluate_hard_activity(s, a, t, p)
    \/ \E s \in Slots, a \in Actors, t \in Targets, p \in Positions :
           evaluate_soft_activity(s, a, t, p)
    \/ \E s \in Slots : synchronize(s)
    \/ \E a \in Actors, l \in RouteStates : remove(a, l)
    \/ \E as \in SUBSET Actors : clone_only_with_op(as)

CacheSpec == CacheInit /\ [][CacheNext]_vars

(***************************************************************************)
(* Population (section 4.5): individuals are fitness values, lower is     *)
(* better; rank 0 is the set of the best individuals.                      *)
(***************************************************************************)
PopulationSize == 4

Min(set) == CHOOSE x \in set : \A y \in set : x <= y

Max(set) == CHOOSE x \in set : \A y \in set : x >= y

RECURSIVE evict(_)
evict(population) ==
    IF Cardinality(population) <= PopulationSize
    THEN population
    ELSE evict(population \ {Max(population)})

\* population.add_all(individuals): the new population
add_all(population, individuals) == evict(population \cup individuals)

\* population.add_all(individuals): whether the best changed
add_all_improved(population, individuals) ==
    /\ individuals # {}
    /\ \/ population = {}
       \/ Min(individuals) < Min(population)

\* population.ranked().filter(rank == 0).map(deep_copy).collect()
get_best_individuals(population) ==
    IF population = {} THEN {} ELSE {Min(population)}

(***************************************************************************)
(* RunBranches.                                                            *)
(***************************************************************************)
\* AtomicBool::fetch_or, the neighbouring read-modify-write
fetch_or(flag, val) == [previous |-> flag, stored |-> flag \/ val]

\* AtomicBool::fetch_and(val, SeqCst): stores flag & val, returns the previous value
fetch_and(flag, val) == [previous |-> flag, stored |-> flag /\ val]

AtomicQuota_is_reached_flag_only == fetch_and(is_terminated, TRUE).previous

\* AtomicQuota::is_reached: original.is_reached() || is_terminated.fetch_and(true)
AtomicQuota_is_reached == outer_quota \/ fetch_and(is_terminated, TRUE).previous

\* the flag after AtomicQuota::is_reached (|| does not poll the flag when the
\* original quota is reached)
AtomicQuota_flag_after ==
    IF outer_quota THEN is_terminated ELSE fetch_and(is_terminated, TRUE).stored

\* should_stop(refinement_ctx, termination) of the root
root_should_stop == Len(telemetry) >= MaxGenerations \/ time_up \/ outer_quota

\* should_stop(refinement_ctx, termination) of a branch: the termination reads
\* the statistics.generation of the branch
branch_should_stop(b) ==
    workers[b].generation >= MaxGenerations \/ time_up \/ AtomicQuota_is_reached

AllSendersDropped == \A b \in Branches : workers[b].pc = "done"

\* while !should_stop(..) { channel(32); is_terminated = false; create_branch x N; drop(sender)
RootStartGeneration ==
    /\ root.pc = "loop"
    /\ ~root_should_stop
    /\ channel' = << >>
    /\ receiver_alive' = TRUE
    /\ is_terminated' = FALSE
    /\ workers' = [b \in Branches |->
                     [pc |-> "check",
                      population |-> add_all({}, get_best_individuals(root_population)),
                      msg |-> None, generation |-> 1]]
    /\ root' = [root EXCEPT !.pc = "collect", !.chunks = 0, !.is_improved = FALSE]
    /\ merge_improves' = FALSE
    /\ UNCHANGED << root_population, telemetry, outer_quota, time_up, received >>
    /\ UNCHANGED nonBranchVars

\* a collector that counts the Some messages only
RootReceive_counts_some ==
    /\ root.pc = "collect"
    /\ Len(channel) > 0
    /\ LET individuals == Head(channel)
           chunks == IF IsSome(individuals) THEN root.chunks + 1 ELSE root.chunks
       IN  /\ channel' = Tail(channel)
           /\ received' = IF IsSome(individuals)
                          THEN received \cup Unwrap(individuals)
                          ELSE received
           /\ merge_improves' =
                (merge_improves \/
                 (IsSome(individuals) /\ add_all_improved(root_population, Unwrap(individuals))))
           /\ IF chunks = MaxChunks
              THEN /\ root' = [root EXCEPT !.pc = "telemetry", !.chunks = chunks]
                   /\ receiver_alive' = FALSE
              ELSE /\ root' = [root EXCEPT !.chunks = chunks]
                   /\ UNCHANGED receiver_alive
    /\ UNCHANGED << root_population, telemetry, is_terminated, workers, outer_quota, time_up >>
    /\ UNCHANGED nonBranchVars

\* collect_individuals: root_receiver.recv() yields a message
RootReceive ==
    /\ root.pc = "collect"
    /\ Len(channel) > 0
    /\ LET individuals == Head(channel)
           chunks == root.chunks + 1
       IN  /\ channel' = Tail(channel)
           \* is_improved = refinement_ctx.population.add_all(individuals) is commented out
           /\ received' = IF IsSome(individuals)
                          THEN received \cup Unwrap(individuals)
                          ELSE received
           /\ merge_improves' =
                (merge_improves \/
                 (IsSome(individuals) /\ add_all_improved(root_population, Unwrap(individuals))))
           /\ IF chunks = MaxChunks
              THEN /\ root' = [root EXCEPT !.pc = "telemetry", !.chunks = chunks]
                   /\ receiver_alive' = FALSE
              ELSE /\ root' = [root EXCEPT !.chunks = chunks]
                   /\ UNCHANGED receiver_alive
    /\ UNCHANGED << root_population, telemetry, is_terminated, workers, outer_quota, time_up >>
    /\ UNCHANGED nonBranchVars

\* collect_individuals: recv() yields None once every sender is dropped
RootReceiveClosed ==
    /\ root.pc = "collect"
    /\ Len(channel) = 0
    /\ AllSendersDropped
    /\ root' = [root EXCEPT !.pc = "telemetry"]
    /\ receiver_alive' = FALSE
    /\ UNCHANGED << root_population, telemetry, channel, is_terminated, workers,
                    outer_quota, time_up, received, merge_improves >>
    /\ UNCHANGED nonBranchVars

\* telemetry.on_generation(&mut refinement_ctx, generation_time, is_improved)
RootOnGeneration ==
    /\ root.pc = "telemetry"
    /\ telemetry' = Append(telemetry, root.is_improved)
    /\ root' = [root EXCEPT !.pc = "loop"]
    /\ UNCHANGED << root_population, channel, receiver_alive, is_terminated, workers,
                    outer_quota, time_up, received, merge_improves >>
    /\ UNCHANGED nonBranchVars

\* telemetry.on_result(&refinement_ctx); Ok((refinement_ctx.population, metrics))
RootFinish ==
    /\ root.pc = "loop"
    /\ root_should_stop
    /\ root' = [root EXCEPT !.pc = "done", !.on_result = @ + 1,
                             !.returned = Some("Ok")]
    /\ UNCHANGED << root_population, telemetry, channel, receiver_alive, is_terminated,
                    workers, outer_quota, time_up, received, merge_improves >>
    /\ UNCHANGED nonBranchVars

\* while !should_stop(&mut refinement_ctx, operators.termination.as_ref())
WorkerCheck(b) ==
    /\ workers[b].pc = "check"
    /\ workers' = [workers EXCEPT ![b].pc = IF branch_should_stop(b) THEN "done" ELSE "generation"]
    /\ is_terminated' = AtomicQuota_flag_after
    /\ UNCHANGED << root, root_population, telemetry, channel, receiver_alive,
                    outer_quota, time_up, received, merge_improves >>
    /\ UNCHANGED nonBranchVars

\* a worker that adds its offspring to the population of the root
WorkerGeneration_shared(b, offspring, should_add_solution) ==
    /\ workers[b].pc = "generation"
    /\ IF should_add_solution
       THEN /\ root_population' = add_all(root_population, offspring)
            /\ workers' = [workers EXCEPT ![b] =
                             [pc |-> "send", population |-> @.population,
                              msg |-> Some(IF add_all_improved(root_population, offspring)
                                           THEN Some(get_best_individuals(root_population'))
                                           ELSE None),
                              generation |-> @.generation]]
       ELSE /\ workers' = [workers EXCEPT ![b].pc = "check"]
            /\ UNCHANGED root_population
    /\ UNCHANGED << root, telemetry, channel, receiver_alive, is_terminated,
                    outer_quota, time_up, received, merge_improves >>
    /\ UNCHANGED nonBranchVars

\* a worker that reports its best individuals after every add_all
WorkerGeneration_always_some(b, offspring, should_add_solution) ==
    /\ workers[b].pc = "generation"
    /\ IF should_add_solution
       THEN LET population == add_all(workers[b].population, offspring)
            IN  workers' = [workers EXCEPT ![b] =
                              [pc |-> "send", population |-> population,
                               msg |-> Some(Some(get_best_individuals(population))),
                               generation |-> @.generation]]
       ELSE workers' = [workers EXCEPT ![b].pc = "check"]
    /\ UNCHANGED << root, root_population, telemetry, channel, receiver_alive, is_terminated,
                    outer_quota, time_up, received, merge_improves >>
    /\ UNCHANGED nonBranchVars

\* a worker that counts its generations in its statistics
WorkerGeneration_counted(b, offspring, should_add_solution) ==
    /\ workers[b].pc = "generation"
    /\ IF should_add_solution
       THEN LET is_improved == add_all_improved(workers[b].population, offspring)
                population == add_all(workers[b].population, offspring)
                best_individuals == IF is_improved
                                    THEN Some(get_best_individuals(population))
                                    ELSE None
            IN  workers' = [workers EXCEPT ![b] = [pc |-> "send", population |-> population,
                                                   msg |-> Some(best_individuals),
                                                   generation |-> @.generation + 1]]
       ELSE workers' = [workers EXCEPT ![b].pc = "check", ![b].generation = @ + 1]
    /\ UNCHANGED << root, root_population, telemetry, channel, receiver_alive, is_terminated,
                    outer_quota, time_up, received, merge_improves >>
    /\ UNCHANGED nonBranchVars

\* select_parents; mutate_all; if should_add_solution { add_all; best_individuals }
WorkerGeneration(b, offspring, should_add_solution) ==
    /\ workers[b].pc = "generation"
    /\ IF should_add_solution
       THEN LET is_improved == add_all_improved(workers[b].population, offspring)
                population == add_all(workers[b].population, offspring)
                best_individuals == IF is_improved
                                    THEN Some(get_best_individuals(population))
                                    ELSE None
            IN  workers' = [workers EXCEPT ![b] = [pc |-> "send", population |-> population,
                                                   msg |-> Some(best_individuals),
                                                   generation |-> @.generation]]
       ELSE workers' = [workers EXCEPT ![b].pc = "check"]
    /\ UNCHANGED << root, root_population, telemetry, channel, receiver_alive, is_terminated,
                    outer_quota, time_up, received, merge_improves >>
    /\ UNCHANGED nonBranchVars

\* a send that stays suspended after the receiver is dropped
WorkerSend_no_release(b) ==
    /\ workers[b].pc = "send"
    /\ receiver_alive
    /\ Len(channel) < ChannelCapacity
    /\ channel' = Append(channel, Unwrap(workers[b].msg))
    /\ workers' = [workers EXCEPT ![b].pc = "check", ![b].msg = None]
    /\ UNCHANGED << root, root_population, telemetry, receiver_alive, is_terminated,
                    outer_quota, time_up, received, merge_improves >>
    /\ UNCHANGED nonBranchVars

\* branch_sender.send(best_individuals).await: Err once the receiver is dropped,
\* suspended while the channel is full
WorkerSend(b) ==
    /\ workers[b].pc = "send"
    /\ IF ~receiver_alive
       THEN /\ workers' = [workers EXCEPT ![b].pc = "done", ![b].msg = None]
            /\ UNCHANGED channel
       ELSE /\ Len(channel) < ChannelCapacity
            /\ channel' = Append(channel, Unwrap(workers[b].msg))
            /\ workers' = [workers EXCEPT ![b].pc = "check", ![b].msg = None]
    /\ UNCHANGED << root, root_population, telemetry, receiver_alive, is_terminated,
                    outer_quota, time_up, received, merge_improves >>
    /\ UNCHANGED nonBranchVars

\* the original quota becomes reached
OuterQuotaReached ==
    /\ ~outer_quota
    /\ outer_quota' = TRUE
    /\ UNCHANGED << root, root_population, telemetry, channel, receiver_alive, is_terminated,
                    workers, time_up, received, merge_improves >>
    /\ UNCHANGED nonBranchVars

\* the time limit passes
TimeLimitPasses ==
    /\ ~time_up
    /\ time_up' = TRUE
    /\ UNCHANGED << root, root_population, telemetry, channel, receiver_alive, is_terminated,
                    workers, outer_quota, received, merge_improves >>
    /\ UNCHANGED nonBranchVars

BranchInit ==
    CacheVarsInit /\ BranchVarsInit /\ StraightVarsInit /\ BuilderVarsInit /\ CapacityVarsInit
      /\ DispatchVarsInit /\ ValueVarsInit

BranchNext ==
    \/ RootStartGeneration
    \/ RootReceive
    \/ RootReceiveClosed
    \/ RootOnGeneration
    \/ RootFinish
    \/ \E b \in Branches : WorkerCheck(b)
    \/ \E b \in Branches, f \in Fitness, add \in BOOLEAN : WorkerGeneration(b, {f}, add)
    \/ \E b \in Branches : WorkerSend(b)
    \/ OuterQuotaReached
    \/ TimeLimitPasses

BranchSpec == BranchInit /\ [][BranchNext]_vars

\* the runtime keeps running every task that can run: the root (block_on) and
\* each spawned worker
RootStep ==
    RootStartGeneration \/ RootReceive \/ RootReceiveClosed \/ RootOnGeneration \/ RootFinish

WorkerStep(b) ==
    \/ WorkerCheck(b)
    \/ \E f \in Fitness, add \in BOOLEAN : WorkerGeneration(b, {f}, add)
    \/ WorkerSend(b)

FairBranchSpec ==
    /\ BranchSpec
    /\ WF_vars(RootStep)
    /\ \A b \in Branches : WF_vars(WorkerStep(b))

(***************************************************************************)
(* RunStraight: the same refinement context (population, quota,            *)
(* termination) and telemetry, driven by one loop.                         *)
(***************************************************************************)
\* while !should_stop(&mut refinement_ctx, operators.termination.as_ref())
StraightShouldStop ==
    /\ root.pc = "s_loop"
    /\ root' = [root EXCEPT !.pc = IF root_should_stop THEN "s_result" ELSE "s_select"]
    /\ straight' = [straight EXCEPT !.calls = << "should_stop" >>]
    /\ UNCHANGED << root_population, telemetry, outer_quota, time_up >>
    /\ UNCHANGED nonStraightVars

\* let parents = operators.selection.select_parents(&refinement_ctx)
StraightSelectParents ==
    /\ root.pc = "s_select"
    /\ root' = [root EXCEPT !.pc = "s_mutate"]
    /\ straight' = [straight EXCEPT !.calls = Append(@, "select_parents")]
    /\ UNCHANGED << root_population, telemetry, outer_quota, time_up >>
    /\ UNCHANGED nonStraightVars

\* let offspring = operators.mutation.mutate_all(&refinement_ctx, parents)
StraightMutateAll(offspring) ==
    /\ root.pc = "s_mutate"
    /\ root' = [root EXCEPT !.pc = "s_add"]
    /\ straight' = [offspring |-> offspring, calls |-> Append(straight.calls, "mutate_all")]
    /\ UNCHANGED << root_population, telemetry, outer_quota, time_up >>
    /\ UNCHANGED nonStraightVars

\* a loop body that adds the offspring without asking should_add_solution
StraightAdd_unchecked(should_add_solution) ==
    /\ root.pc = "s_add"
    /\ root_population' = add_all(root_population, straight.offspring)
    /\ root' = [root EXCEPT !.pc = "s_telemetry",
                            !.is_improved = add_all_improved(root_population, straight.offspring)]
    /\ straight' = [straight EXCEPT !.calls = Append(@, "add_all")]
    /\ UNCHANGED << telemetry, outer_quota, time_up >>
    /\ UNCHANGED nonStraightVars

\* let is_improved = if should_add_solution(..) { population.add_all(offspring) } else { false }
StraightAdd(should_add_solution) ==
    /\ root.pc = "s_add"
    /\ IF should_add_solution
       THEN /\ root_population' = add_all(root_population, straight.offspring)
            /\ root' = [root EXCEPT !.pc = "s_telemetry",
                                    !.is_improved =
                                        add_all_improved(root_population, straight.offspring)]
            /\ straight' = [straight EXCEPT
                              !.calls = Append(Append(@, "should_add_solution"), "add_all")]
       ELSE /\ UNCHANGED root_population
            /\ root' = [root EXCEPT !.pc = "s_telemetry", !.is_improved = FALSE]
            /\ straight' = [straight EXCEPT !.calls = Append(@, "should_add_solution")]
    /\ UNCHANGED << telemetry, outer_quota, time_up >>
    /\ UNCHANGED nonStraightVars

\* telemetry.on_generation(&mut refinement_ctx, generation_time, is_improved)
StraightOnGeneration ==
    /\ root.pc = "s_telemetry"
    /\ telemetry' = Append(telemetry, root.is_improved)
    /\ root' = [root EXCEPT !.pc = "s_loop"]
    /\ straight' = [straight EXCEPT !.calls = Append(@, "on_generation")]
    /\ UNCHANGED << root_population, outer_quota, time_up >>
    /\ UNCHANGED nonStraightVars

\* a run that reports an error when the quota stopped it
StraightFinish_err ==
    /\ root.pc = "s_result"
    /\ root' = [root EXCEPT !.pc = "done", !.on_result = @ + 1,
                            !.returned = IF outer_quota THEN Some("Err") ELSE Some("Ok")]
    /\ UNCHANGED << root_population, telemetry, outer_quota, time_up, straight >>
    /\ UNCHANGED nonStraightVars

\* telemetry.on_result(&refinement_ctx); Ok((refinement_ctx.population, metrics))
StraightFinish ==
    /\ root.pc = "s_result"
    /\ root' = [root EXCEPT !.pc = "done", !.on_result = @ + 1, !.returned = Some("Ok")]
    /\ UNCHANGED << root_population, telemetry, outer_quota, time_up, straight >>
    /\ UNCHANGED nonStraightVars

StraightInit ==
    /\ CacheVarsInit
    /\ StraightVarsInit
    /\ BuilderVarsInit
    /\ DispatchVarsInit
    /\ ValueVarsInit
    /\ CapacityVarsInit
    /\ root = [pc |-> "s_loop", chunks |-> 0, is_improved |-> FALSE,
               on_result |-> 0, returned |-> None]
    /\ root_population = {MaxFitness}
    /\ telemetry = << >>
    /\ channel = << >>
    /\ receiver_alive = FALSE
    /\ is_terminated = FALSE
    /\ workers = [b \in Branches |-> [pc |-> "none", population |-> {}, msg |-> None,
                                         generation |-> 1]]
    /\ outer_quota = FALSE
    /\ time_up = FALSE
    /\ received = {}
    /\ merge_improves = FALSE

StraightNext ==
    \/ StraightShouldStop
    \/ StraightSelectParents
    \/ \E f \in Fitness : StraightMutateAll({f})
    \/ \E add \in BOOLEAN : StraightAdd(add)
    \/ StraightOnGeneration
    \/ StraightFinish
    \/ OuterQuotaReached
    \/ TimeLimitPasses

StraightSpec == StraightInit /\ [][StraightNext]_vars

\* EvolutionConfig::strategy: the run is either RunStraight or RunBranches
EvolutionInit == StraightInit \/ BranchInit

EvolutionNext == StraightNext \/ BranchNext

EvolutionSpec == EvolutionInit /\ [][EvolutionNext]_vars

(***************************************************************************)
(* evolution::Builder (rosomaxa) and the termination it builds.            *)
(***************************************************************************)
DefaultMaxGenerations == 3000

DefaultMaxTime == 300

Limits == 1..MaxLimit

IntervalTypes == {"sample", "period", "hourly"}

\* min_cv: Option<(String, usize, f64, bool)>; the threshold in hundredths
MinCvArgs == { << t, 1, 10, g >> : t \in IntervalTypes, g \in {TRUE} }

StateKey == 1

OptionOf(set) == {None} \cup { Some(x) : x \in set }

MaxGeneration_new(limit) == [kind |-> "MaxGeneration", limit |-> limit]

MaxTime_new(limit) == [kind |-> "MaxTime", limit |-> limit]

MinVariation_new_with_sample(value, threshold, is_global, key) ==
    [kind |-> "MinVariation", interval |-> "sample", value |-> value,
     threshold |-> threshold, is_global |-> is_global, key |-> key]

MinVariation_new_with_period(value, threshold, is_global, key) ==
    [kind |-> "MinVariation", interval |-> "period", value |-> value,
     threshold |-> threshold, is_global |-> is_global, key |-> key]

CompositeTermination_new(terminations) ==
    [kind |-> "Composite", terminations |-> terminations]

\* format!("unknown variation interval type: {}", interval_type)
UnknownIntervalError(interval_type) == << "unknown variation interval type: ", interval_type >>

Ok(config) == [ok |-> TRUE, config |-> Some(config), err |-> None]

Err(text) == [ok |-> FALSE, config |-> None, err |-> Some(text)]

\* a build that takes every unknown interval type for "period"
build_lenient(self) ==
    IF self.max_generations = None /\ self.max_time = None /\ self.min_cv = None
    THEN Ok([termination |-> CompositeTermination_new(
                << MaxGeneration_new(DefaultMaxGenerations), MaxTime_new(DefaultMaxTime) >>)])
    ELSE LET generations == IF IsSome(self.max_generations)
                            THEN << MaxGeneration_new(Unwrap(self.max_generations)) >>
                            ELSE << >>
             cv == Unwrap(self.min_cv)
             variation == IF self.min_cv = None THEN << >>
                          ELSE IF cv[1] = "sample"
                          THEN << MinVariation_new_with_sample(cv[2], cv[3], cv[4], cv[5]) >>
                          ELSE << MinVariation_new_with_period(cv[2], cv[3], cv[4], cv[5]) >>
         IN  Ok([termination |-> CompositeTermination_new(generations \o variation)])

\* Builder::build
build(self) ==
    IF self.max_generations = None /\ self.max_time = None /\ self.min_cv = None
    THEN Ok([termination |-> CompositeTermination_new(
                << MaxGeneration_new(DefaultMaxGenerations), MaxTime_new(DefaultMaxTime) >>)])
    ELSE LET generations == IF IsSome(self.max_generations)
                            THEN << MaxGeneration_new(Unwrap(self.max_generations)) >>
                            ELSE << >>
             cv == Unwrap(self.min_cv)
         IN  IF self.min_cv = None
             THEN Ok([termination |-> CompositeTermination_new(generations)])
             ELSE IF cv[1] = "sample"
             THEN Ok([termination |-> CompositeTermination_new(
                        Append(generations,
                               MinVariation_new_with_sample(cv[2], cv[3], cv[4], cv[5])))])
             ELSE IF cv[1] = "period"
             THEN Ok([termination |-> CompositeTermination_new(
                        Append(generations,
                               MinVariation_new_with_period(cv[2], cv[3], cv[4], cv[5])))])
             ELSE Err(UnknownIntervalError(cv[1]))

\* the heuristic context a termination looks at: generation, elapsed seconds and
\* the coefficient of variation of the observed fitness (in hundredths)
Contexts ==
    [generation : {0, MaxLimit, DefaultMaxGenerations},
     elapsed : {0, MaxLimit + 1, DefaultMaxTime + 1},
     cv : {0, 50}]

\* Termination::is_termination of MaxGeneration, MaxTime and MinVariation (section 4.7)
is_termination(termination, ctx) ==
    CASE termination.kind = "MaxGeneration" -> ctx.generation >= termination.limit
      [] termination.kind = "MaxTime" -> ctx.elapsed > termination.limit
      [] termination.kind = "MinVariation" -> ctx.cv < termination.threshold
      [] OTHER -> FALSE

\* a composite that stops asking at the first child that answers true
CompositeTermination_is_termination_any(terminations, ctx, calls) ==
    LET hits == { i \in 1..Len(terminations) : is_termination(terminations[i], ctx) }
        asked == IF hits = {} THEN 1..Len(terminations)
                 ELSE 1..(CHOOSE i \in hits : \A j \in hits : i <= j)
    IN  [result |-> hits # {},
         calls |-> [i \in 1..Len(terminations) |-> IF i \in asked THEN calls[i] + 1 ELSE calls[i]]]

\* CompositeTermination::is_termination: every child is asked, the answers are or-ed
CompositeTermination_is_termination(terminations, ctx, calls) ==
    LET answers == [i \in 1..Len(terminations) |-> is_termination(terminations[i], ctx)]
    IN  [result |-> \E i \in 1..Len(terminations) : answers[i],
         calls |-> [i \in 1..Len(terminations) |-> calls[i] + 1]]

with_max_generations(limit) ==
    /\ build_result = None
    /\ builder' = [builder EXCEPT !.max_generations = limit]
    /\ UNCHANGED << build_result, term >>
    /\ UNCHANGED nonBuilderVars

with_min_cv(min_cv, key) ==
    /\ build_result = None
    /\ builder' = [builder EXCEPT !.min_cv =
                     IF IsSome(min_cv)
                     THEN Some(<< Unwrap(min_cv)[1], Unwrap(min_cv)[2], Unwrap(min_cv)[3],
                                  Unwrap(min_cv)[4], key >>)
                     ELSE None]
    /\ UNCHANGED << build_result, term >>
    /\ UNCHANGED nonBuilderVars

with_max_time(limit) ==
    /\ build_result = None
    /\ builder' = [builder EXCEPT !.max_time = limit]
    /\ UNCHANGED << build_result, term >>
    /\ UNCHANGED nonBuilderVars

with_termination(termination) ==
    /\ build_result = None
    /\ builder' = [builder EXCEPT !.termination = termination]
    /\ UNCHANGED << build_result, term >>
    /\ UNCHANGED nonBuilderVars

\* let config = builder.build()
Build ==
    /\ build_result = None
    /\ build_result' = Some(build(builder))
    /\ term' = [term EXCEPT !.calls =
                  IF build(builder).ok
                  THEN [i \in 1..Len(Unwrap(build(builder).config).termination.terminations) |-> 0]
                  ELSE << >>]
    /\ UNCHANGED builder
    /\ UNCHANGED nonBuilderVars

\* config.termination.is_termination(&mut ctx)
IsTermination(ctx) ==
    /\ IsSome(build_result)
    /\ Unwrap(build_result).ok
    /\ term.ticks < MaxTicks
    /\ LET answer == CompositeTermination_is_termination(
                        Unwrap(Unwrap(build_result).config).termination.terminations,
                        ctx, term.calls)
       IN  term' = [ticks |-> term.ticks + 1, calls |-> answer.calls, ctx |-> Some(ctx),
                    result |-> answer.result]
    /\ UNCHANGED << builder, build_result >>
    /\ UNCHANGED nonBuilderVars

BuilderInit ==
    CacheVarsInit /\ BranchVarsInit /\ StraightVarsInit /\ BuilderVarsInit /\ CapacityVarsInit
      /\ DispatchVarsInit /\ ValueVarsInit

BuilderNext ==
    \/ \E limit \in OptionOf(Limits) : with_max_generations(limit)
    \/ \E min_cv \in OptionOf(MinCvArgs) : with_min_cv(min_cv, StateKey)
    \/ \E limit \in OptionOf(Limits) : with_max_time(limit)
    \/ with_termination([kind |-> "Custom"])
    \/ Build
    \/ \E ctx \in Contexts : IsTermination(ctx)

BuilderSpec == BuilderInit /\ [][BuilderNext]_vars

(***************************************************************************)
(* CapacityConstraintModule: the route state it recalculates.              *)
(***************************************************************************)
\* Demand<T>: pickup and delivery, each a pair (static, dynamic)
Demand_new(pickup, delivery) == [pickup |-> pickup, delivery |-> delivery]

\* Demand::change
Demand_change(demand) ==
    demand.pickup[1] + demand.pickup[2] - demand.delivery[1] - demand.delivery[2]

\* LoadOps::max_load of a one-dimensional load
max_load(a, b) == IF a >= b THEN a ELSE b

\* LoadOps::ratio of a one-dimensional load: the exact quotient as (numerator, denominator)
ratio(load, capacity) == << load, capacity >>

\* Self::get_demand(activity)
get_demand(activity) ==
    IF IsSome(activity.job) THEN Unwrap(activity.job).demand ELSE None

\* state.put_activity_state(key, activity, value); activities are indexed from 0
put_activity_state(state, key, idx, value) == [state EXCEPT ![key][idx + 1] = Some(value)]

\* state.get_activity_state(key, activity)
get_activity_state(state, key, idx) == state[key][idx + 1]

\* the fold over activities_slice(start_idx, end_idx) that sums static deliveries and pickups
RECURSIVE static_fold(_, _, _, _)
static_fold(tour, idx, end_idx, acc) ==
    IF idx > end_idx THEN acc
    ELSE LET demand == get_demand(tour[idx + 1])
         IN  static_fold(tour, idx + 1, end_idx,
                 IF IsSome(demand)
                 THEN << acc[1] + Unwrap(demand).delivery[1], acc[2] + Unwrap(demand).pickup[1] >>
                 ELSE acc)

\* a forward sweep that records the maximum met before the activity
RECURSIVE forward_fold_before(_, _, _, _, _, _)
forward_fold_before(tour, idx, end_idx, current, max, state) ==
    IF idx > end_idx THEN [current |-> current, state |-> state]
    ELSE LET demand == get_demand(tour[idx + 1])
             change == IF IsSome(demand) THEN Demand_change(Unwrap(demand)) ELSE 0
             next == current + change
         IN  forward_fold_before(tour, idx + 1, end_idx, next, max_load(max, next),
                 put_activity_state(
                     put_activity_state(state, "current", idx, next), "max_past", idx, max))

\* the forward fold: actual load at each activity and max discovered in the past
RECURSIVE forward_fold(_, _, _, _, _, _)
forward_fold(tour, idx, end_idx, current, max, state) ==
    IF idx > end_idx THEN [current |-> current, state |-> state]
    ELSE LET demand == get_demand(tour[idx + 1])
             change == IF IsSome(demand) THEN Demand_change(Unwrap(demand)) ELSE 0
             next == current + change
             next_max == max_load(max, next)
         IN  forward_fold(tour, idx + 1, end_idx, next, next_max,
                 put_activity_state(
                     put_activity_state(state, "current", idx, next), "max_past", idx, next_max))

\* a reverse fold that records the max load of the activities after this one
RECURSIVE reverse_fold_after(_, _, _, _)
reverse_fold_after(idx, start_idx, max, state) ==
    IF idx < start_idx THEN [max |-> max, state |-> state]
    ELSE LET next_max == max_load(max, Unwrap(get_activity_state(state, "current", idx)))
         IN  reverse_fold_after(idx - 1, start_idx, next_max,
                 put_activity_state(state, "max_future", idx, max))

\* the reverse fold: max load of the activities from here to the end of the interval
RECURSIVE reverse_fold(_, _, _, _)
reverse_fold(idx, start_idx, max, state) ==
    IF idx < start_idx THEN [max |-> max, state |-> state]
    ELSE LET next_max == max_load(max, Unwrap(get_activity_state(state, "current", idx)))
         IN  reverse_fold(idx - 1, start_idx, next_max,
                 put_activity_state(state, "max_future", idx, next_max))

\* an interval step that forgets the maximum of the intervals before it
interval_step_last_only(tour, interval, acc, max, state) ==
    LET start_idx == interval[1]
        end_idx == interval[2]
        static == static_fold(tour, start_idx, end_idx, << acc, 0 >>)
        forward == forward_fold(tour, start_idx, end_idx, static[1], 0, state)
        reverse == reverse_fold(end_idx, start_idx, forward.current, forward.state)
    IN  [acc |-> forward.current - static[2], max |-> reverse.max, state |-> reverse.state]

\* the closure folded over reload_intervals
interval_step(tour, interval, acc, max, state) ==
    LET start_idx == interval[1]
        end_idx == interval[2]
        static == static_fold(tour, start_idx, end_idx, << acc, 0 >>)
        forward == forward_fold(tour, start_idx, end_idx, static[1], 0, state)
        reverse == reverse_fold(end_idx, start_idx, forward.current, forward.state)
    IN  [acc |-> forward.current - static[2], max |-> max_load(reverse.max, max),
         state |-> reverse.state]

RECURSIVE intervals_fold(_, _, _, _, _, _)
intervals_fold(tour, intervals, k, acc, max, state) ==
    IF k > Len(intervals) THEN [max |-> max, state |-> state]
    ELSE LET step == interval_step(tour, intervals[k], acc, max, state)
         IN  intervals_fold(tour, intervals, k + 1, step.acc, step.max, step.state)

\* a recalculation that starts from the load stored for the last activity
recalculate_states_carry(ctx) ==
    LET reload_intervals == IF IsSome(ctx.intervals) THEN Unwrap(ctx.intervals)
                            ELSE << << 0, Len(ctx.tour) - 1 >> >>
        stored == get_activity_state(ctx.state, "current", Len(ctx.tour) - 1)
        folded == intervals_fold(ctx.tour, reload_intervals, 1,
                                 IF IsSome(stored) THEN Unwrap(stored) ELSE 0, 0, ctx.state)
    IN  IF IsSome(ctx.capacity)
        THEN [folded.state EXCEPT !.max_load = Some(ratio(folded.max, Unwrap(ctx.capacity)))]
        ELSE folded.state

\* CapacityConstraintModule::recalculate_states
recalculate_states(ctx) ==
    LET reload_intervals == IF IsSome(ctx.intervals) THEN Unwrap(ctx.intervals)
                            ELSE << << 0, Len(ctx.tour) - 1 >> >>
        folded == intervals_fold(ctx.tour, reload_intervals, 1, 0, 0, ctx.state)
    IN  IF IsSome(ctx.capacity)
        THEN [folded.state EXCEPT !.max_load = Some(ratio(folded.max, Unwrap(ctx.capacity)))]
        ELSE folded.state

\* the demands a job can carry: static and dynamic pickup, static and dynamic delivery
Demands ==
    { Demand_new(<< ps, dyn[1] >>, << ds, dyn[2] >>) :
        ps \in 0..MaxDemand, ds \in 0..MaxDemand, dyn \in {<< 0, 0 >>, << 1, 0 >>, << 0, 1 >>} }

\* tours of total activities: the start activity serves no job
Tours(total) ==
    { tour \in [1..total -> {Activity_new(None)} \cup
                             { Activity_new(Some(Single_new(d, FALSE, FALSE))) :
                                 d \in OptionOf(Demands) }] :
        /\ tour[1].job = None
        /\ \A i \in 2..total : tour[i].job # None }

\* the interval lists that split the activities 0..total-1 along the cuts:
\* a cut c closes an interval at c-1 and opens the next at c
RECURSIVE IntervalsOf(_, _, _)
IntervalsOf(start_idx, total, cuts) ==
    IF \E c \in cuts : c > start_idx
    THEN LET c == Min({ x \in cuts : x > start_idx })
         IN  << << start_idx, c - 1 >> >> \o IntervalsOf(c, total, cuts)
    ELSE << << start_idx, total - 1 >> >>

MarkerIntervals(total) == { IntervalsOf(0, total, cuts) : cuts \in SUBSET (1..(total - 1)) }

\* the state keys whose value a call has put
ChangedKeys(before, after) == { key \in DOMAIN after : after[key] # before[key] }

\* CapacityConstraintModule::state_keys
CapacityConstraintModule_state_keys ==
    {CURRENT_CAPACITY_KEY, MAX_FUTURE_CAPACITY_KEY, MAX_PAST_CAPACITY_KEY}

\* ConstraintModule::accept_route_state
accept_route_state ==
    /\ route_context.accepts + route_context.values < MaxAccepts
    /\ LET state == recalculate_states(route_context)
       IN  route_context' =
             [route_context EXCEPT
                !.state = state,
                !.accepts = @ + 1,
                !.last = "capacity",
                !.written = @ \cup { << "capacity", key >> :
                                        key \in ChangedKeys(route_context.state, state) }]
    /\ UNCHANGED evaluation
    /\ UNCHANGED nonCapacityVars

\* state.put_route_state(key, value)
put_route_state(state, key, value) == [state EXCEPT ![key] = Some(value)]

\* WorkBalance::new_load_balanced, get_load_ratio: the highest load ratio at the
\* starts of the reload intervals; load_fn is the exact quotient
get_load_ratio(ctx) ==
    LET capacity == Unwrap(ctx.capacity)
        intervals == IF IsSome(ctx.intervals) THEN Unwrap(ctx.intervals) ELSE << << 0, 0 >> >>
        loads == { IF IsSome(get_activity_state(ctx.state, MAX_FUTURE_CAPACITY_KEY,
                                                intervals[k][1]))
                   THEN Unwrap(get_activity_state(ctx.state, MAX_FUTURE_CAPACITY_KEY,
                                                  intervals[k][1]))
                   ELSE 0 : k \in 1..Len(intervals) }
    IN  ratio(Max(loads), capacity)

\* Tour::job_activity_count
job_activity_count(tour) == Cardinality({ i \in 1..Len(tour) : IsSome(tour[i].job) })

\* GenericValue::new_constrained_objective as WorkBalance calls it
GenericValueConstraints ==
    { [name |-> "load_balanced", state_key |-> BALANCE_MAX_LOAD_KEY,
       keys |-> {BALANCE_MAX_LOAD_KEY}],
      [name |-> "activity_balanced", state_key |-> BALANCE_ACTIVITY_KEY,
       keys |-> {BALANCE_ACTIVITY_KEY}] }

\* self.route_value_fn.deref()(ctx)
route_value_fn(self, ctx) ==
    IF self.name = "load_balanced" THEN get_load_ratio(ctx)
    ELSE job_activity_count(ctx.tour)

\* GenericValueConstraint::accept_route_state
GenericValueConstraint_accept_route_state(self, ctx) ==
    put_route_state(ctx.state, self.state_key, route_value_fn(self, ctx))

\* get_load_ratio unwraps the capacity of the vehicle
GenericValueAccept(self) ==
    /\ route_context.accepts + route_context.values < MaxAccepts
    /\ self.name = "load_balanced" => IsSome(route_context.capacity)
    /\ LET state == GenericValueConstraint_accept_route_state(self, route_context)
       IN  route_context' =
             [route_context EXCEPT
                !.state = state,
                !.values = @ + 1,
                !.last = self.name,
                !.written = @ \cup { << self.name, key >> :
                                        key \in ChangedKeys(route_context.state, state) }]
    /\ UNCHANGED evaluation
    /\ UNCHANGED nonCapacityVars

CapacityInit ==
    /\ CacheVarsInit
    /\ BranchVarsInit
    /\ StraightVarsInit
    /\ BuilderVarsInit
    /\ DispatchVarsInit
    /\ ValueVarsInit
    /\ \E total \in 1..MaxActivities :
         \E tour \in Tours(total), intervals \in OptionOf(MarkerIntervals(total)),
            capacity \in OptionOf(1..MaxCapacity) :
             route_context = RouteContext_new(tour, intervals, capacity)
    /\ evaluation = [op |-> "none"]

CapacityNext ==
    \/ accept_route_state
    \/ \E self \in GenericValueConstraints : GenericValueAccept(self)

CapacitySpec == CapacityInit /\ [][CapacityNext]_vars

(***************************************************************************)
(* CapacityConstraintModule: the hard route and hard activity constraints. *)
(***************************************************************************)
\* LoadOps::is_not_empty of a one-dimensional load
is_not_empty(load) == load # 0

\* LoadOps::can_fit of a one-dimensional load
can_fit(capacity, load) == capacity >= load

\* MultiTrip::has_markers: the route is split into more than one interval
has_markers(ctx) == IsSome(ctx.intervals) /\ Len(Unwrap(ctx.intervals)) > 1

\* state.get_activity_state(key, pivot).unwrap_or(&default)
get_activity_state_or_default(state, key, idx) ==
    IF IsSome(get_activity_state(state, key, idx))
    THEN Unwrap(get_activity_state(state, key, idx))
    ELSE 0

\* a check that never stops the search on a pickup or on a load change
has_demand_violation_lenient(state, pivot, capacity, demand, stopped) ==
    IF demand = None THEN None
    ELSE IF capacity = None THEN Some(stopped)
    ELSE LET d == Unwrap(demand)
             c == Unwrap(capacity)
             past == get_activity_state_or_default(state, MAX_PAST_CAPACITY_KEY, pivot)
             future == get_activity_state_or_default(state, MAX_FUTURE_CAPACITY_KEY, pivot)
             current == get_activity_state_or_default(state, CURRENT_CAPACITY_KEY, pivot)
             change == Demand_change(d)
         IN  IF is_not_empty(d.delivery[1]) /\ ~can_fit(c, past + d.delivery[1])
             THEN Some(stopped)
             ELSE IF is_not_empty(d.pickup[1]) /\ ~can_fit(c, future + d.pickup[1])
             THEN Some(FALSE)
             ELSE IF is_not_empty(change) /\ ~can_fit(c, future + change)
             THEN Some(FALSE)
             ELSE IF is_not_empty(change) /\ ~can_fit(c, current + change)
             THEN Some(FALSE)
             ELSE None

\* CapacityConstraintModule::has_demand_violation; pivot is an activity index
has_demand_violation(state, pivot, capacity, demand, stopped) ==
    IF demand = None THEN None
    ELSE IF capacity = None THEN Some(stopped)
    ELSE LET d == Unwrap(demand)
             c == Unwrap(capacity)
             past == get_activity_state_or_default(state, MAX_PAST_CAPACITY_KEY, pivot)
             future == get_activity_state_or_default(state, MAX_FUTURE_CAPACITY_KEY, pivot)
             current == get_activity_state_or_default(state, CURRENT_CAPACITY_KEY, pivot)
             change == Demand_change(d)
         IN  IF is_not_empty(d.delivery[1]) /\ ~can_fit(c, past + d.delivery[1])
             THEN Some(stopped)
             ELSE IF is_not_empty(d.pickup[1]) /\ ~can_fit(c, future + d.pickup[1])
             THEN Some(stopped)
             ELSE IF is_not_empty(change) /\ ~can_fit(c, future + change)
             THEN Some(stopped)
             ELSE IF is_not_empty(change) /\ ~can_fit(c, current + change)
             THEN Some(FALSE)
             ELSE None

\* CapacityConstraintModule::can_handle_demand_on_intervals
can_handle_demand_on_intervals(ctx, demand, insert_idx) ==
    LET violation(idx) == has_demand_violation(ctx.state, idx, ctx.capacity, demand, TRUE)
    IN  IF IsSome(ctx.intervals)
        THEN LET intervals == Unwrap(ctx.intervals)
             IN  IF IsSome(insert_idx)
                 THEN \A k \in { j \in 1..Len(intervals) : Unwrap(insert_idx) <= intervals[j][2] } :
                         violation(Max({Unwrap(insert_idx), intervals[k][1]})) = None
                 ELSE \E k \in 1..Len(intervals) : violation(intervals[k][1]) = None
        ELSE violation(IF IsSome(insert_idx) THEN Unwrap(insert_idx) ELSE 0) = None

\* Job::Single and Job::Multi
Job_Single(single) == [kind |-> "Single", single |-> single]

Job_Multi(jobs) == [kind |-> "Multi", jobs |-> jobs]

\* MultiTrip::is_marker_job
is_marker_job(job) == job.kind = "Single" /\ job.single.marker

\* CapacityHardRouteConstraint::evaluate_job; is_assignable is the answer of
\* MultiTrip::is_assignable(route, job)
evaluate_job(ctx, job, is_assignable) ==
    IF is_marker_job(job)
    THEN IF is_assignable THEN None ELSE Some([code |-> CapacityCode])
    ELSE LET can_handle ==
                 IF job.kind = "Single"
                 THEN can_handle_demand_on_intervals(ctx, job.single.demand, None)
                 ELSE \E i \in 1..Len(job.jobs) :
                         can_handle_demand_on_intervals(ctx, job.jobs[i].demand, None)
         IN  IF can_handle THEN None ELSE Some([code |-> CapacityCode])

\* ActivityContext: index is the index of prev, next is None behind the last activity
ActivityContext_new(ctx, index, target) ==
    [index |-> index, prev |-> ctx.tour[index + 1], target |-> target,
     next |-> IF index + 2 <= Len(ctx.tour) THEN Some(ctx.tour[index + 2]) ELSE None]

\* an activity constraint that lets a marker job in before another job
evaluate_activity_not_first(ctx, activity_ctx) ==
    IF IsSome(activity_ctx.target.job) /\ Unwrap(activity_ctx.target.job).marker
    THEN IF activity_ctx.prev.job = None
         THEN Some([code |-> CapacityCode, stopped |-> FALSE])
         ELSE None
    ELSE LET demand == get_demand(activity_ctx.target)
             violation ==
                 IF IsSome(activity_ctx.target.job) /\ Unwrap(activity_ctx.target.job).of_multi
                 THEN IF can_handle_demand_on_intervals(ctx, demand, Some(activity_ctx.index))
                      THEN None
                      ELSE Some(FALSE)
                 ELSE has_demand_violation(ctx.state, activity_ctx.index, ctx.capacity, demand,
                                           ~has_markers(ctx))
         IN  IF IsSome(violation)
             THEN Some([code |-> CapacityCode, stopped |-> Unwrap(violation)])
             ELSE None

\* CapacityHardActivityConstraint::evaluate_activity
evaluate_activity(ctx, activity_ctx) ==
    IF IsSome(activity_ctx.target.job) /\ Unwrap(activity_ctx.target.job).marker
    THEN LET is_first == activity_ctx.prev.job = None
             is_not_last == IsSome(activity_ctx.next) /\ IsSome(Unwrap(activity_ctx.next).job)
         IN  IF is_first \/ is_not_last
             THEN Some([code |-> CapacityCode, stopped |-> FALSE])
             ELSE None
    ELSE LET demand == get_demand(activity_ctx.target)
             violation ==
                 IF IsSome(activity_ctx.target.job) /\ Unwrap(activity_ctx.target.job).of_multi
                 THEN IF can_handle_demand_on_intervals(ctx, demand, Some(activity_ctx.index))
                      THEN None
                      ELSE Some(FALSE)
                 ELSE has_demand_violation(ctx.state, activity_ctx.index, ctx.capacity, demand,
                                           ~has_markers(ctx))
         IN  IF IsSome(violation)
             THEN Some([code |-> CapacityCode, stopped |-> Unwrap(violation)])
             ELSE None

\* the demands of the jobs of a tour under insertion: one static or dynamic
\* pickup or delivery
TourDemands ==
    UNION { { Demand_new(<< a, 0 >>, << 0, 0 >>), Demand_new(<< 0, 0 >>, << a, 0 >>),
              Demand_new(<< 0, a >>, << 0, 0 >>), Demand_new(<< 0, 0 >>, << 0, a >>) } :
            a \in 1..MaxDemand }

MarkerSingle == Single_new(None, TRUE, FALSE)

\* tours under insertion: the start, then jobs, then possibly the end
InsertionTours(total) ==
    { tour \in [1..total -> {Activity_new(None), Activity_new(Some(MarkerSingle))} \cup
                             { Activity_new(Some(Single_new(Some(d), FALSE, FALSE))) :
                                 d \in TourDemands }] :
        /\ tour[1].job = None
        /\ \A i \in 2..(total - 1) : tour[i].job # None }

\* the activities offered for insertion
TargetActivities ==
    {Activity_new(Some(MarkerSingle))} \cup
    { Activity_new(Some(Single_new(d, FALSE, of_multi))) :
        d \in OptionOf(Demands), of_multi \in BOOLEAN }

\* the jobs offered to a route: singles, the marker and Multi jobs of two singles
RouteJobs ==
    {Job_Single(MarkerSingle)} \cup
    { Job_Single(Single_new(d, FALSE, FALSE)) : d \in OptionOf(Demands) } \cup
    { Job_Multi(<< Single_new(Some(d1), FALSE, TRUE), Single_new(Some(d2), FALSE, TRUE) >>) :
        d1 \in TourDemands, d2 \in TourDemands }

\* the route context as accept_insertion leaves it
Accepted(ctx) ==
    LET state == recalculate_states(ctx)
    IN  [ctx EXCEPT !.state = state, !.accepts = 1, !.last = "capacity",
                    !.written = { << "capacity", key >> : key \in ChangedKeys(ctx.state, state) }]

\* constraint.evaluate_hard_activity(route_ctx, activity_ctx) of the capacity module;
\* an evaluation leaves the route as it is, so one evaluation per route is followed
EvaluateActivity(index, target) ==
    /\ evaluation.op = "none"
    /\ index + 1 <= Len(route_context.tour)
    /\ evaluation' = [op |-> "evaluate_activity", index |-> index, target |-> target,
                      result |-> evaluate_activity(route_context,
                                     ActivityContext_new(route_context, index, target))]
    /\ UNCHANGED route_context
    /\ UNCHANGED nonCapacityVars

\* constraint.evaluate_hard_route(solution_ctx, route_ctx, job) of the capacity module
EvaluateJob(job, is_assignable) ==
    /\ evaluation.op = "none"
    /\ is_assignable \/ is_marker_job(job)
    /\ evaluation' = [op |-> "evaluate_job", job |-> job, is_assignable |-> is_assignable,
                      result |-> evaluate_job(route_context, job, is_assignable)]
    /\ UNCHANGED route_context
    /\ UNCHANGED nonCapacityVars

InsertionInit ==
    /\ CacheVarsInit
    /\ BranchVarsInit
    /\ StraightVarsInit
    /\ BuilderVarsInit
    /\ DispatchVarsInit
    /\ ValueVarsInit
    /\ \E total \in 1..MaxActivities :
         \E tour \in InsertionTours(total), intervals \in OptionOf(MarkerIntervals(total)),
            capacity \in OptionOf(1..MaxCapacity) :
             route_context = Accepted(RouteContext_new(tour, intervals, capacity))
    /\ evaluation = [op |-> "none"]

InsertionNext ==
    \/ \E index \in 0..(MaxActivities - 1), target \in TargetActivities : EvaluateActivity(index, target)
    \/ \E job \in RouteJobs, is_assignable \in BOOLEAN : EvaluateJob(job, is_assignable)

InsertionSpec == InsertionInit /\ [][InsertionNext]_vars

(***************************************************************************)
(* CapacityConstraintModule::merge.  Loads are signed integers of LoadBits *)
(* bits: an addition that leaves the range panics in a build with overflow *)
(* checks and wraps around in a build without.                             *)
(***************************************************************************)
RECURSIVE Pow2(_)
Pow2(n) == IF n = 0 THEN 1 ELSE 2 * Pow2(n - 1)

LoadMax == Pow2(LoadBits - 1) - 1

LoadMin == 0 - Pow2(LoadBits - 1)

Overflows(x) == x > LoadMax \/ x < LoadMin

wrapping_add(a, b) == ((a + b - LoadMin) % Pow2(LoadBits)) + LoadMin

\* Demand::default
Demand_default == Demand_new(<< 0, 0 >>, << 0, 0 >>)

\* whether an addition inside Demand + Demand leaves the range of a load
Demand_add_overflows(a, b) ==
    \/ Overflows(a.pickup[1] + b.pickup[1])
    \/ Overflows(a.pickup[2] + b.pickup[2])
    \/ Overflows(a.delivery[1] + b.delivery[1])
    \/ Overflows(a.delivery[2] + b.delivery[2])

\* Demand + Demand without overflow checks
Demand_add(a, b) ==
    Demand_new(<< wrapping_add(a.pickup[1], b.pickup[1]), wrapping_add(a.pickup[2], b.pickup[2]) >>,
               << wrapping_add(a.delivery[1], b.delivery[1]),
                  wrapping_add(a.delivery[2], b.delivery[2]) >>)

MergeOk(job) == [kind |-> "Ok", job |-> job]

MergeErr(code) == [kind |-> "Err", code |-> code]

MergePanic == [kind |-> "panic"]

\* CapacityConstraintModule::merge: the set of outcomes the build can produce
merge(source, candidate) ==
    IF is_marker_job(source) \/ is_marker_job(candidate)
    THEN {MergeErr(CapacityCode)}
    ELSE IF source.kind = "Single" /\ candidate.kind = "Single"
    THEN LET source_demand == source.single.demand
             candidate_demand == candidate.single.demand
         IN  IF candidate_demand = None
             THEN {MergeOk(source)}
             ELSE LET a == IF IsSome(source_demand) THEN Unwrap(source_demand) ELSE Demand_default
                      b == Unwrap(candidate_demand)
                      merged == MergeOk(Job_Single([source.single EXCEPT
                                                      !.demand = Some(Demand_add(a, b))]))
                  IN  IF Demand_add_overflows(a, b) THEN {MergePanic, merged} ELSE {merged}
    ELSE {MergeErr(CapacityCode)}

\* demands to merge: static pickups and deliveries, up to the largest load
MergeDemands ==
    { Demand_new(<< p, 0 >>, << d, 0 >>) : p \in {0, 1, LoadMax}, d \in {0, 1, LoadMax} }

MergeJobs ==
    {Job_Single(MarkerSingle)} \cup
    { Job_Single(Single_new(d, FALSE, FALSE)) : d \in OptionOf(MergeDemands) } \cup
    { Job_Multi(<< Single_new(Some(d), FALSE, TRUE), Single_new(Some(d), FALSE, TRUE) >>) :
        d \in {Demand_default} }

\* constraint.merge(source, candidate) of the capacity module
Merge(source, candidate) ==
    /\ evaluation.op = "none"
    /\ \E result \in merge(source, candidate) :
          evaluation' = [op |-> "merge", source |-> source, candidate |-> candidate,
                         result |-> result]
    /\ UNCHANGED route_context
    /\ UNCHANGED nonCapacityVars

MergeInit ==
    /\ CacheVarsInit
    /\ BranchVarsInit
    /\ StraightVarsInit
    /\ BuilderVarsInit
    /\ DispatchVarsInit
    /\ ValueVarsInit
    /\ CapacityVarsInit

MergeNext == \E source \in MergeJobs, candidate \in MergeJobs : Merge(source, candidate)

MergeSpec == MergeInit /\ [][MergeNext]_vars

(***************************************************************************)
(* Objectives: the estimate of an unassigned job and the total cost.       *)
(***************************************************************************)
JobTypes == {"break", "reload", "dispatch", "pickup", "delivery", "service"}

EstimateValues == {0, 1, 100}

\* an estimate that takes a dispatch job for a reload job
get_unassigned_job_estimate_dispatch_free(job_type, break_value, default_value) ==
    IF job_type = "break" THEN break_value
    ELSE IF job_type \in {"reload", "dispatch"} THEN 0
    ELSE default_value

\* get_unassigned_job_estimate(job, break_value, default_value)
get_unassigned_job_estimate(job_type, break_value, default_value) ==
    IF job_type = "break" THEN break_value
    ELSE IF job_type = "reload" THEN 0
    ELSE default_value

\* Costs: fixed, per distance unit and per time unit
Costs_new(fixed, per_distance, per_time) ==
    [fixed |-> fixed, per_distance |-> per_distance, per_time |-> per_time]

\* fixed_costs() of the vehicles and the costs of test_driver()
fixed_costs == Costs_new(100, 1, 1)

test_driver_costs == Costs_new(0, 1, 1)

\* a route of the solution: the costs of its actor, the driven distance and
\* the duration from departure to arrival
CostRoute_new(vehicle, driver, distance, duration) ==
    [vehicle |-> vehicle, driver |-> driver, distance |-> distance, duration |-> duration]

CostRoutes ==
    { CostRoute_new(vehicle, test_driver_costs, distance, duration) :
        vehicle \in {fixed_costs, test_driver_costs}, distance \in {10, 30},
        duration \in {11, 40} }

\* the cost of one route, counted for vehicle and driver
route_cost(r) ==
    r.vehicle.fixed + r.driver.fixed
      + r.distance * (r.vehicle.per_distance + r.driver.per_distance)
      + r.duration * (r.vehicle.per_time + r.driver.per_time)

RECURSIVE routes_cost(_)
routes_cost(routes) ==
    IF routes = << >> THEN 0 ELSE route_cost(Head(routes)) + routes_cost(Tail(routes))

\* a total cost that charges one unit for every unassigned job
TotalCost_fitness_with_unassigned(routes, unassigned) == routes_cost(routes) + unassigned

\* TotalCost::minimize().fitness(&insertion_ctx); unassigned is the number of unassigned jobs
TotalCost_fitness(routes, unassigned) == routes_cost(routes)

GetUnassignedJobEstimate(job_type, break_value, default_value) ==
    /\ evaluation.op = "none"
    /\ evaluation' = [op |-> "estimate", job_type |-> job_type, break_value |-> break_value,
                      default_value |-> default_value,
                      result |-> get_unassigned_job_estimate(job_type, break_value,
                                                             default_value)]
    /\ UNCHANGED route_context
    /\ UNCHANGED nonCapacityVars

EvaluateFitness(routes, unassigned) ==
    /\ evaluation.op = "none"
    /\ evaluation' = [op |-> "fitness", routes |-> routes, unassigned |-> unassigned,
                      result |-> TotalCost_fitness(routes, unassigned)]
    /\ UNCHANGED route_context
    /\ UNCHANGED nonCapacityVars

ObjectiveInit ==
    /\ CacheVarsInit
    /\ BranchVarsInit
    /\ StraightVarsInit
    /\ BuilderVarsInit
    /\ DispatchVarsInit
    /\ ValueVarsInit
    /\ CapacityVarsInit

ObjectiveNext ==
    \/ \E job_type \in JobTypes, break_value \in EstimateValues, default_value \in EstimateValues :
          GetUnassignedJobEstimate(job_type, break_value, default_value)
    \/ \E r1 \in CostRoutes, r2 \in CostRoutes, unassigned \in 0..1 :
          \E routes \in {<< >>, << r1 >>, << r1, r2 >>} : EvaluateFitness(routes, unassigned)

ObjectiveSpec == ObjectiveInit /\ [][ObjectiveNext]_vars

(***************************************************************************)
(* Dispatch: vehicles check in at a dispatch location whose time windows   *)
(* admit a limited number of vehicles each.                                *)
(***************************************************************************)
\* VehicleDispatchLimit { max, start, end }
VehicleDispatchLimit_new(max, start, end) == [max |-> max, start |-> start, end |-> end]

\* the limits of a shift: the two time windows of the test, each with a max
DispatchLimits ==
    { << VehicleDispatchLimit_new(m1, 10, 12), VehicleDispatchLimit_new(m2, 13, 16) >> :
        m1 \in 0..MaxDispatch, m2 \in 0..MaxDispatch }

\* the limits of can_dispatch_multiple_vehicles_at_single_dispatch
TestDispatchLimits ==
    << VehicleDispatchLimit_new(2, 10, 12), VehicleDispatchLimit_new(3, 13, 16) >>

\* the driving time from the depot at (0,0) to the dispatch location at (1,0)
DispatchDistance == 1

\* a tour of one vehicle: departure from the depot in time for the window,
\* the dispatch activity over the window, the delivery and the arrival
DispatchTour_new(limit, job) ==
    << [type |-> "departure", departure |-> limit.start - DispatchDistance],
       [type |-> "dispatch", arrival |-> limit.start, departure |-> limit.end],
       [type |-> "delivery", job |-> job],
       [type |-> "arrival"] >>

\* the vehicles whose dispatch activity is scheduled inside the window of a limit
dispatched_in(s, limit) ==
    { v \in DispatchVehicles :
        /\ IsSome(s.tours[v])
        /\ \E k \in 1..Len(Unwrap(s.tours[v])) :
              LET stop == Unwrap(s.tours[v])[k]
              IN  /\ stop.type = "dispatch"
                  /\ limit.start <= stop.arrival
                  /\ stop.departure <= limit.end }

\* a dispatch that admits a vehicle whatever the limit's max is
has_dispatch_room_unlimited(s, i) == i \in 1..Len(s.limits)

\* the window of limit i admits one more vehicle
has_dispatch_room(s, i) ==
    Cardinality(dispatched_in(s, s.limits[i])) < s.limits[i].max

\* job can be inserted into a new tour of vehicle dispatched in the window of
\* limit i; a vehicle has capacity 1 and serves one delivery
can_insert(s, vehicle, job, i) ==
    /\ job \in s.unassigned
    /\ s.tours[vehicle] = None
    /\ has_dispatch_room(s, i)

InsertWithDispatch(vehicle, job, i) ==
    /\ can_insert(shift, vehicle, job, i)
    /\ shift' = [shift EXCEPT !.tours[vehicle] = Some(DispatchTour_new(shift.limits[i], job)),
                              !.unassigned = @ \ {job}]
    /\ UNCHANGED nonDispatchVars

DispatchInit ==
    /\ CacheVarsInit
    /\ BranchVarsInit
    /\ StraightVarsInit
    /\ BuilderVarsInit
    /\ CapacityVarsInit
    /\ ValueVarsInit
    /\ \E limits \in DispatchLimits :
          shift = [limits |-> limits, tours |-> [v \in DispatchVehicles |-> None],
                   unassigned |-> DispatchJobs]

DispatchNext ==
    \E vehicle \in DispatchVehicles, job \in DispatchJobs, i \in 1..Len(shift.limits) :
        InsertWithDispatch(vehicle, job, i)

DispatchSpec == DispatchInit /\ [][DispatchNext]_vars

(***************************************************************************)
(* GenericValue: a constraint that stores a solution value under a state   *)
(* key and the objective that reads it.                                    *)
(***************************************************************************)
\* an f64: a number or NaN
F64(v) == [nan |-> FALSE, v |-> v]

NaN == [nan |-> TRUE, v |-> 0]

Floats == { F64(v) : v \in 0..MaxValue } \cup {NaN}

\* a < b on f64: false when one of them is NaN
f64_lt(a, b) == ~a.nan /\ ~b.nan /\ a.v < b.v

\* compare_floats(a, b): NaN is equal to NaN and greater than every number
compare_floats(a, b) ==
    IF a.nan /\ b.nan THEN "Equal"
    ELSE IF a.nan THEN "Greater"
    ELSE IF b.nan THEN "Less"
    ELSE IF a.v < b.v THEN "Less"
    ELSE IF a.v > b.v THEN "Greater"
    ELSE "Equal"

\* a value of the state map: Arc<dyn Any>, an f64 or a value of another type
StateValue_f64(value) == [f64 |-> TRUE, value |-> value]

StateValue_other == [f64 |-> FALSE, value |-> NaN]

RECURSIVE sum_values(_)
sum_values(routes) ==
    IF routes = << >> THEN 0 ELSE Head(routes) + sum_values(Tail(routes))

\* solution_value_fn(ctx): the sum of the values of the routes
solution_value_fn(ctx) == F64(sum_values(ctx.routes))

\* a constraint that keeps a value the state map already holds
GenericValueConstraint_accept_solution_state_keep(ctx) ==
    [ctx EXCEPT !.state = IF ctx.state = None
                          THEN Some(StateValue_f64(solution_value_fn(ctx)))
                          ELSE ctx.state,
                !.last = "accept"]

\* GenericValueConstraint::accept_solution_state: ctx.state.insert(state_key, value)
GenericValueConstraint_accept_solution_state(ctx) ==
    [ctx EXCEPT !.state = Some(StateValue_f64(solution_value_fn(ctx))), !.last = "accept"]

\* GenericValueObjective::fitness: state.get(state_key).and_then(downcast_ref::<f64>)
\* .cloned().unwrap_or_else(|| solution_value_fn(solution))
GenericValueObjective_fitness(insertion_ctx) ==
    IF IsSome(insertion_ctx.state) /\ Unwrap(insertion_ctx.state).f64
    THEN Unwrap(insertion_ctx.state).value
    ELSE solution_value_fn(insertion_ctx)

\* a comparison that takes a fitness equal to the threshold for one below it
GenericValueObjective_total_order_inclusive(threshold, a, b) ==
    LET fitness_a == GenericValueObjective_fitness(a)
        fitness_b == GenericValueObjective_fitness(b)
        below(f) == f64_lt(f, Unwrap(threshold)) \/ f = Unwrap(threshold)
    IN  IF IsSome(threshold) /\ below(fitness_a) /\ f64_lt(fitness_b, Unwrap(threshold))
        THEN "Equal"
        ELSE IF IsSome(threshold) /\ below(fitness_a) THEN "Less"
        ELSE IF IsSome(threshold) /\ f64_lt(fitness_b, Unwrap(threshold)) THEN "Greater"
        ELSE compare_floats(fitness_a, fitness_b)

\* GenericValueObjective::total_order(a, b) of an objective with this threshold
GenericValueObjective_total_order(threshold, a, b) ==
    LET fitness_a == GenericValueObjective_fitness(a)
        fitness_b == GenericValueObjective_fitness(b)
    IN  IF IsSome(threshold) /\ f64_lt(fitness_a, Unwrap(threshold))
                             /\ f64_lt(fitness_b, Unwrap(threshold))
        THEN "Equal"
        ELSE IF IsSome(threshold) /\ f64_lt(fitness_a, Unwrap(threshold)) THEN "Less"
        ELSE IF IsSome(threshold) /\ f64_lt(fitness_b, Unwrap(threshold)) THEN "Greater"
        ELSE compare_floats(fitness_a, fitness_b)

\* create_solution_with_state_value(state_key, value)
create_solution_with_state_value(value) ==
    [routes |-> << >>, state |-> Some(value), last |-> "insert"]

\* the solutions the current one is compared with
ComparedSolutions == { create_solution_with_state_value(StateValue_f64(f)) : f \in Floats }

\* solution.state.insert(state_key, Arc::new(value)) by another writer
StateInsert(value) ==
    /\ evaluation.op = "none"
    /\ solution_ctx.state # Some(value)
    /\ solution_ctx' = [solution_ctx EXCEPT !.state = Some(value), !.last = "insert"]
    /\ UNCHANGED capacityVars
    /\ UNCHANGED nonValueVars

\* a route with this value is added to the solution; the state is not updated
AddRoute(value) ==
    /\ evaluation.op = "none"
    /\ Len(solution_ctx.routes) < MaxRoutes
    /\ solution_ctx' = [solution_ctx EXCEPT !.routes = Append(@, value), !.last = "add_route"]
    /\ UNCHANGED capacityVars
    /\ UNCHANGED nonValueVars

\* constraint.accept_solution_state(&mut solution_ctx)
AcceptSolutionState ==
    /\ evaluation.op = "none"
    /\ solution_ctx.last # "accept"
    /\ solution_ctx' = GenericValueConstraint_accept_solution_state(solution_ctx)
    /\ UNCHANGED capacityVars
    /\ UNCHANGED nonValueVars

\* objective.fitness(&insertion_ctx)
ValueFitness ==
    /\ evaluation.op = "none"
    /\ evaluation' = [op |-> "value_fitness",
                      result |-> GenericValueObjective_fitness(solution_ctx)]
    /\ UNCHANGED << route_context, solution_ctx >>
    /\ UNCHANGED nonValueVars

\* objective.total_order among the current solution a and the solutions b and c
TotalOrder(threshold, b, c) ==
    /\ evaluation.op = "none"
    /\ LET a == solution_ctx
           order(x, y) == GenericValueObjective_total_order(threshold, x, y)
       IN  evaluation' = [op |-> "total_order", threshold |-> threshold, b |-> b, c |-> c,
                          ab |-> order(a, b), ba |-> order(b, a), bc |-> order(b, c),
                          cb |-> order(c, b), ac |-> order(a, c), ca |-> order(c, a),
                          aa |-> order(a, a)]
    /\ UNCHANGED << route_context, solution_ctx >>
    /\ UNCHANGED nonValueVars

ValueInit ==
    /\ CacheVarsInit
    /\ BranchVarsInit
    /\ StraightVarsInit
    /\ BuilderVarsInit
    /\ CapacityVarsInit
    /\ DispatchVarsInit
    /\ ValueVarsInit

ValueNext ==
    \/ \E f \in Floats : StateInsert(StateValue_f64(f))
    \/ StateInsert(StateValue_other)
    \/ \E value \in 0..MaxValue : AddRoute(value)
    \/ AcceptSolutionState
    \/ ValueFitness
    \/ \E threshold \in OptionOf(Floats), b \in ComparedSolutions, c \in ComparedSolutions :
          TotalOrder(threshold, b, c)

ValueSpec == ValueInit /\ [][ValueNext]_vars

(***************************************************************************)
(* The recharge feature (vrp-pragmatic construction/features/recharge.rs). *)
(***************************************************************************)
RECHARGE_DISTANCE_KEY == "recharge_distance"

RECHARGE_INTERVALS_KEY == "recharge_intervals"

RELOAD_RESOURCE_KEY == "reload_resource"

\* the state keys create_recharge_feature declares
RechargeFeature_state_keys == {RECHARGE_DISTANCE_KEY, RECHARGE_INTERVALS_KEY}

\* transport.distance(route, from, to, departure) on a line
transport_distance(from, to) == IF from <= to THEN to - from ELSE from - to

\* a route of the recharge feature: the locations of its activities, the marker
\* intervals, the distance limit of its actor and the activity states; reload
\* is what the reload feature has put under RELOAD_RESOURCE_KEY
RechargeRoute_new(tour, intervals, limit, reload) ==
    [tour |-> tour, intervals |-> intervals, limit |-> limit,
     state |-> [recharge_distance |-> [i \in 1..Len(tour) |-> None],
                reload_resource |-> [i \in 1..Len(tour) |-> reload]]]

\* the fold over the legs of activities_slice(start_idx, end_idx)
RECURSIVE recharge_fold(_, _, _, _, _)
recharge_fold(tour, idx, end_idx, acc, state) ==
    IF idx >= end_idx THEN state
    ELSE LET counter == acc + transport_distance(tour[idx + 1], tour[idx + 2])
         IN  recharge_fold(tour, idx + 1, end_idx, counter,
                           put_activity_state(state, RECHARGE_DISTANCE_KEY, idx + 1, counter))

RECURSIVE recharge_intervals_fold(_, _, _, _)
recharge_intervals_fold(tour, marker_intervals, i, state) ==
    IF i > Len(marker_intervals) THEN state
    ELSE recharge_intervals_fold(tour, marker_intervals, i + 1,
             recharge_fold(tour, marker_intervals[i][1], marker_intervals[i][2], 0, state))

\* RechargeableMultiTrip::recalculate_states
RechargeableMultiTrip_recalculate_states(route_ctx) ==
    IF route_ctx.limit = None THEN route_ctx
    ELSE LET marker_intervals == IF IsSome(route_ctx.intervals) THEN Unwrap(route_ctx.intervals)
                                 ELSE << << 0, Len(route_ctx.tour) - 1 >> >>
         IN  [route_ctx EXCEPT !.state =
                recharge_intervals_fold(route_ctx.tour, marker_intervals, 1, route_ctx.state)]

\* the sum of the values found under key at the end activities of left and right
intervals_distance(route_ctx, key, left, right) ==
    LET value(idx) == IF idx + 1 \in 1..Len(route_ctx.tour)
                         /\ IsSome(get_activity_state(route_ctx.state, key, idx))
                      THEN Unwrap(get_activity_state(route_ctx.state, key, idx))
                      ELSE 0
    IN  value(left[2]) + value(right[2])

\* is_obsolete_interval_fn(route_ctx, left, right)
is_obsolete_interval(route_ctx, left, right) ==
    /\ IsSome(route_ctx.limit)
    /\ intervals_distance(route_ctx, RELOAD_RESOURCE_KEY, left, right) < Unwrap(route_ctx.limit)

\* the routes of the recharge feature
RechargeRoutes ==
    UNION { { RechargeRoute_new(tour, intervals, limit, reload) :
                tour \in [1..total -> 0..MaxLocation],
                intervals \in OptionOf(MarkerIntervals(total)),
                limit \in OptionOf(0..MaxDistanceLimit),
                reload \in OptionOf(0..MaxLoad) } : total \in 2..MaxStops }

\* accept_route_state of the feature: recalculate_states(route_ctx)
RechargeAcceptRouteState(route_ctx) ==
    /\ evaluation.op = "none"
    /\ evaluation' = [op |-> "recharge_states",
                      route_ctx |-> RechargeableMultiTrip_recalculate_states(route_ctx)]
    /\ UNCHANGED << route_context, solution_ctx >>
    /\ UNCHANGED nonValueVars

\* route_intervals.is_obsolete_interval(route_ctx, left, right) for two adjacent intervals
IsObsoleteInterval(i) ==
    /\ evaluation.op = "recharge_states"
    /\ IsSome(evaluation.route_ctx.intervals)
    /\ i + 1 <= Len(Unwrap(evaluation.route_ctx.intervals))
    /\ LET left == Unwrap(evaluation.route_ctx.intervals)[i]
           right == Unwrap(evaluation.route_ctx.intervals)[i + 1]
       IN  evaluation' = [op |-> "is_obsolete_interval", route_ctx |-> evaluation.route_ctx,
                          left |-> left, right |-> right,
                          result |-> is_obsolete_interval(evaluation.route_ctx, left, right)]
    /\ UNCHANGED << route_context, solution_ctx >>
    /\ UNCHANGED nonValueVars

RechargeInit == ValueInit

RechargeNext ==
    \/ \E route_ctx \in RechargeRoutes : RechargeAcceptRouteState(route_ctx)
    \/ \E i \in 1..MaxStops : IsObsoleteInterval(i)

RechargeSpec == RechargeInit /\ [][RechargeNext]_vars

(***************************************************************************)
(* Properties of the insertion cache.                                      *)
(***************************************************************************)
EvalOps == {"evaluate_hard_route", "evaluate_soft_route",
            "evaluate_hard_activity", "evaluate_soft_activity"}

HardOps == {"evaluate_hard_route", "evaluate_hard_activity"}

MapOf(op) ==
    CASE op = "evaluate_hard_route" -> "hard_route"
      [] op = "evaluate_soft_route" -> "soft_route"
      [] op = "evaluate_hard_activity" -> "hard_activity"
      [] op = "evaluate_soft_activity" -> "soft_activity"

\* the key is stored in the sub-map of its actor
InSolution(cache, m, key) ==
    /\ key[1] \in DOMAIN cache[m]
    /\ key \in DOMAIN cache[m][key[1]]

InJob(job, m, key) == IsSome(job[m]) /\ key \in DOMAIN Unwrap(job[m])

\* what the pipeline answers for the key on the current route context
FreshEval(op, key) ==
    LET route_ctx == RouteCtx(key[1])
    IN  CASE op = "evaluate_hard_route" -> PipelineHardRoute(route_ctx, key[2])
          [] op = "evaluate_soft_route" -> PipelineSoftRoute(route_ctx, key[2])
          [] op = "evaluate_hard_activity" ->
                PipelineHardActivity(route_ctx, [target |-> key[2], position |-> key[4]])
          [] op = "evaluate_soft_activity" ->
                PipelineSoftActivity(route_ctx, [target |-> key[2], position |-> key[4]])

\* C1: an evaluate_* call whose key is already in the SolutionCache the
\* InsertionCache refers to, or in the JobCache of the current round, is
\* answered from the cache: it does not invoke the constraint pipeline.
C1_AtMostOnceEvaluation ==
    [][ (/\ evals' = evals + 1
         /\ last'.op \in EvalOps
         /\ IsSome(last'.key)
         /\ \/ InJob(caches[last'.slot].job, MapOf(last'.op), Unwrap(last'.key))
            \/ /\ caches[last'.slot].state = "new"
               /\ InSolution(solution, MapOf(last'.op), Unwrap(last'.key)))
        => ~last'.called ]_vars

\* C2: the result evaluate_* returns for a key equals the result of a fresh
\* pipeline evaluation on the current RouteContext.
C2_CacheEqualsFreshEvaluation ==
    (last.op \in EvalOps /\ IsSome(last.key))
        => last.result = FreshEval(last.op, Unwrap(last.key))

\* C3: immediately after remove(ctx, actor) none of the four SolutionCache
\* sub-maps contains an entry for that actor.
C3_RemovePurgesActor ==
    last.op = "remove" => \A m \in MapNames : last.actor \notin DOMAIN solution[m]

C3_Witness ==
    /\ last.op = "remove"
    /\ \E m \in MapNames : last.actor \in DOMAIN Unwrap(last.before)[m]

\* C4: after synchronize(ctx, job_cache) every (key, value) of the JobCache is
\* in the SolutionCache sub-map of the key's actor with the JobCache's value
\* (also when the key existed before), every other entry is unchanged, and
\* nothing else is added.
C4_SynchronizeMerges ==
    last.op = "synchronize" =>
        \A m \in MapNames :
            LET job == last.job[m]
                old == Unwrap(last.before)[m]
                new == solution[m]
            IN  /\ IsSome(job) =>
                     \A k \in DOMAIN Unwrap(job) :
                        /\ InSolution(solution, m, k)
                        /\ new[k[1]][k] = Unwrap(job)[k]
                /\ \A a \in DOMAIN old : \A k \in DOMAIN old[a] :
                     ~InJob(last.job, m, k) =>
                        /\ a \in DOMAIN new
                        /\ k \in DOMAIN new[a]
                        /\ new[a][k] = old[a][k]
                /\ \A a \in DOMAIN new : \A k \in DOMAIN new[a] :
                     \/ InJob(last.job, m, k)
                     \/ a \in DOMAIN old /\ k \in DOMAIN old[a]

\* a synchronize that overwrote an entry with a different value
C4_Witness ==
    /\ last.op = "synchronize"
    /\ \E m \in MapNames :
         /\ IsSome(last.job[m])
         /\ \E k \in DOMAIN Unwrap(last.job[m]) :
              /\ InSolution(Unwrap(last.before), m, k)
              /\ Unwrap(last.before)[m][k[1]][k] # Unwrap(last.job[m])[k]

\* C5: clone_only_with(actors) returns a cache whose four maps hold exactly
\* the entries of the original whose actor is in actors, with equal values,
\* and the original cache is unchanged.
C5_CloneOnlyWithProjects ==
    last.op = "clone_only_with" =>
        /\ solution = Unwrap(last.before)
        /\ \A m \in MapNames :
             /\ DOMAIN last.result[m] = { a \in DOMAIN solution[m] : a \in last.actors }
             /\ \A a \in DOMAIN last.result[m] : last.result[m][a] = solution[m][a]

\* a projection that keeps one actor's entries and drops another's
C5_Witness ==
    /\ last.op = "clone_only_with"
    /\ \E m \in MapNames :
         /\ \E a \in DOMAIN solution[m] : a \in last.actors /\ a \in DOMAIN last.result[m]
         /\ \E a \in DOMAIN solution[m] : a \notin last.actors

\* C6: evaluate_hard_route / evaluate_hard_activity invoke the pipeline
\* exactly when the key is absent from the SolutionCache; an entry that
\* stores "no violation" (None) is a hit and is returned as it is.
C6_NegativeHitIsHit ==
    (/\ last.op \in HardOps
     /\ IsSome(last.key)
     /\ caches[last.slot].state = "new")
        => LET k == Unwrap(last.key)
               m == MapOf(last.op)
           IN  IF InSolution(solution, m, k)
               THEN ~last.called /\ last.result = solution[m][k[1]][k]
               ELSE last.called

C6_Witness ==
    /\ last.op \in HardOps
    /\ IsSome(last.key)
    /\ caches[last.slot].state = "new"
    /\ InSolution(solution, MapOf(last.op), Unwrap(last.key))
    /\ solution[MapOf(last.op)][Unwrap(last.key)[1]][Unwrap(last.key)] = None
    /\ ~last.called
    /\ last.result = None

(***************************************************************************)
(* Properties of RunBranches.                                              *)
(***************************************************************************)
\* the collector of the latest super-generation has stopped reading
CollectorReturned ==
    /\ root.pc \in {"telemetry", "loop", "done"}
    /\ \E b \in Branches : workers[b].pc # "none"

\* C7: once the collector of a super-generation has stopped reading, the
\* shared is_terminated flag is true, so AtomicQuota.is_reached answers true.
C7_CollectorSetsTerminated ==
    CollectorReturned => (is_terminated /\ AtomicQuota_is_reached)

\* C8: every Some(individuals) the collector receives is merged into the root
\* population (so the root's best is at least as good as each of them), and
\* the is_improved handed to telemetry.on_generation tells whether one of
\* these merges changed the root's best.
C8_ReceivedIsMerged ==
    /\ \A f \in received : root_population # {} /\ Min(root_population) <= f
    /\ (root.pc = "loop" /\ Len(telemetry) > 0)
          => telemetry[Len(telemetry)] = merge_improves

\* C9: when RunBranches has finished, the root's best fitness is no worse
\* than the best any island reported and no worse than the seed's best.
C9_FinalBestNotWorse ==
    root.pc = "done" =>
        /\ root_population # {}
        /\ Min(root_population) <= MaxFitness
        /\ \A f \in received : Min(root_population) <= f

\* C10: after the collector has returned, a worker that comes to its
\* generation boundary (the should_stop check) or to its send exits there:
\* it starts no further generation.
C10_WorkersExitAfterCollect ==
    [][ \A b \in Branches :
          (/\ CollectorReturned
           /\ root' = root
           /\ workers[b].pc \in {"check", "send"}
           /\ workers'[b] # workers[b])
          => workers'[b].pc = "done" ]_vars

\* C11: once the outer quota is reached, a worker that polls the quota at its
\* generation boundary exits and starts no further generation, the root loop
\* stops at its next should_stop and returns Ok, the root population is no
\* longer changed, and the run does come to its end.
C11_OuterQuotaCancels ==
    /\ [][ \A b \in Branches :
             (outer_quota /\ workers[b].pc = "check" /\ workers'[b] # workers[b])
                => workers'[b].pc = "done" ]_vars
    /\ [][ (outer_quota /\ root.pc = "loop" /\ root' # root)
                => (root'.pc = "done" /\ root'.returned = Some("Ok")) ]_vars
    /\ [][ outer_quota => root_population' = root_population ]_vars
    /\ outer_quota ~> (root.pc = "done" /\ \A b \in Branches : workers[b].pc \in {"none", "done"})

\* a run that the outer quota stopped during its first super-generation
C11_Witness ==
    /\ outer_quota
    /\ ~time_up
    /\ root.pc = "done"
    /\ Len(telemetry) = 1
    /\ \A b \in Branches : workers[b].pc = "done"

\* C12: the is_terminated flag of a super-generation only ever changes from
\* false to true; a poll of AtomicQuota.is_reached leaves it as it is, and the
\* poll answers true exactly when the outer quota is reached or the flag is
\* true (the worker then stops; without a time limit it stops only then).
C12_FlagMonotone ==
    /\ [][ (is_terminated' # is_terminated /\ root'.pc = root.pc)
                => (~is_terminated /\ is_terminated') ]_vars
    /\ [][ \A b \in Branches :
             (workers[b].pc = "check" /\ workers'[b] # workers[b])
                => /\ is_terminated' = is_terminated
                   /\ workers'[b].pc = "done" <=> (time_up \/ outer_quota \/ is_terminated) ]_vars

\* one poll has answered false and another one true
C12_Witness ==
    /\ receiver_alive
    /\ ~time_up
    /\ outer_quota
    /\ \E b \in Branches : workers[b].pc = "generation"
    /\ \E b \in Branches : workers[b].pc = "done"

\* C13: a step that changes the root population is no worker step; a worker
\* step changes the state of that worker only; and the workers of a
\* super-generation start from the root's rank-0 individuals.
C13_WorkersOwnPopulations ==
    /\ [][ root_population' # root_population => workers' = workers ]_vars
    /\ [][ (root' = root /\ workers' # workers)
                => \E b \in Branches : \A c \in Branches \ {b} : workers'[c] = workers[c] ]_vars
    /\ [][ (root.pc = "loop" /\ root'.pc = "collect")
                => \A b \in Branches :
                      workers'[b].population =
                          { f \in root_population : \A g \in root_population : f <= g } ]_vars

\* a worker has added offspring to its own population, the root's is untouched
C13_Witness ==
    /\ root.pc = "collect"
    /\ root_population = {MaxFitness}
    /\ \E b \in Branches : \E f \in workers[b].population : f < MaxFitness

(***************************************************************************)
(* Properties of RunStraight and of both strategies.                       *)
(***************************************************************************)
IsPrefix(p, q) == Len(p) <= Len(q) /\ \A i \in 1..Len(p) : p[i] = q[i]

GenerationWithAdd ==
    << "should_stop", "select_parents", "mutate_all", "should_add_solution", "add_all",
       "on_generation" >>

GenerationWithoutAdd ==
    << "should_stop", "select_parents", "mutate_all", "should_add_solution", "on_generation" >>

\* C14: the calls of a generation of RunStraight are, in this order,
\* should_stop, select_parents, mutate_all, should_add_solution, add_all
\* (only when the check passed) and on_generation, each once; when add_all
\* was skipped on_generation receives is_improved = false.
C14_StraightGenerationOrder ==
    /\ \/ IsPrefix(straight.calls, GenerationWithAdd)
       \/ IsPrefix(straight.calls, GenerationWithoutAdd)
    /\ straight.calls = GenerationWithoutAdd => telemetry[Len(telemetry)] = FALSE
    /\ root.pc = "s_telemetry" =>
          (\E i \in 1..Len(straight.calls) : straight.calls[i] = "add_all") \/ ~root.is_improved

\* a generation that skipped add_all although the offspring was better
C14_Witness ==
    /\ straight.calls = GenerationWithoutAdd
    /\ \E f \in straight.offspring : f < Min(root_population)
    /\ telemetry[Len(telemetry)] = FALSE

\* C15: in both strategies the run ends only at a should_stop that is true,
\* ends there at once, calls telemetry.on_result exactly once and after the
\* last on_generation, and returns Ok, also when the quota stopped it.
C15_ResultOnceThenOk ==
    /\ [](root.pc = "done" => (root.on_result = 1 /\ root.returned = Some("Ok")))
    /\ [](root.pc # "done" => (root.on_result = 0 /\ root.returned = None))
    /\ [][ root'.on_result # root.on_result => root_should_stop ]_vars
    /\ [][ (root.pc \in {"loop", "s_loop"} /\ root_should_stop /\ root' # root)
              => root'.pc \in {"done", "s_result"} ]_vars
    /\ [][ (root.pc = "s_result" /\ root' # root) => root'.pc = "done" ]_vars
    /\ [][ root.pc = "done" => (root' = root /\ telemetry' = telemetry
                                 /\ root_population' = root_population) ]_vars

\* a run of RunStraight that the quota stopped after its first generation
C15_Witness ==
    /\ root.pc = "done"
    /\ straight.calls = << "should_stop" >>
    /\ outer_quota
    /\ ~time_up
    /\ Len(telemetry) = 1

\* a run of RunBranches that the quota stopped after its first super-generation
C15_WitnessBranches ==
    /\ root.pc = "done"
    /\ straight.calls = << >>
    /\ outer_quota
    /\ ~time_up
    /\ Len(telemetry) = 1

(***************************************************************************)
(* Properties of the builder and of the composite termination.             *)
(***************************************************************************)
BuiltTerminations == Unwrap(Unwrap(build_result).config).termination.terminations

Contains(terminations, termination) ==
    \E i \in 1..Len(terminations) : terminations[i] = termination

C17_BuildContainsWhatWasSet ==
    (IsSome(build_result) /\ Unwrap(build_result).ok) =>
        /\ IsSome(builder.max_time) =>
              Contains(BuiltTerminations, [kind |-> "MaxTime", limit |-> Unwrap(builder.max_time)])
        /\ IsSome(builder.max_generations) =>
              Contains(BuiltTerminations,
                       [kind |-> "MaxGeneration", limit |-> Unwrap(builder.max_generations)])
        /\ IsSome(builder.min_cv) =>
              \E i \in 1..Len(BuiltTerminations) : BuiltTerminations[i].kind = "MinVariation"
        /\ (builder.max_time = None /\ builder.max_generations = None /\ builder.min_cv = None) =>
              /\ Len(BuiltTerminations) = 2
              /\ Contains(BuiltTerminations, [kind |-> "MaxGeneration", limit |-> 3000])
              /\ Contains(BuiltTerminations, [kind |-> "MaxTime", limit |-> 300])

\* C18: build returns Err("unknown variation interval type: <type>") exactly
\* when min_cv is set with an interval type other than "sample" and "period",
\* Ok otherwise, and an Err carries no configuration.
C18_BuildErrIffUnknownInterval ==
    IsSome(build_result) =>
        LET result == Unwrap(build_result)
            unknown == /\ IsSome(builder.min_cv)
                       /\ Unwrap(builder.min_cv)[1] \notin {"sample", "period"}
        IN  /\ result.ok <=> ~unknown
            /\ result.ok => (IsSome(result.config) /\ result.err = None)
            /\ ~result.ok =>
                  /\ result.config = None
                  /\ result.err = Some(<< "unknown variation interval type: ",
                                          Unwrap(builder.min_cv)[1] >>)
                  /\ term.ticks = 0

\* a build that failed on the interval type "hourly"
C18_Witness ==
    /\ IsSome(build_result)
    /\ ~Unwrap(build_result).ok
    /\ Unwrap(build_result).err = Some(<< "unknown variation interval type: ", "hourly" >>)
    /\ IsSome(builder.max_generations)

(***************************************************************************)
(* Properties of the capacity state.                                       *)
(***************************************************************************)
StaticOnly(tour) ==
    \A i \in 1..Len(tour) :
        IsSome(get_demand(tour[i])) =>
            /\ Unwrap(get_demand(tour[i])).pickup[2] = 0
            /\ Unwrap(get_demand(tour[i])).delivery[2] = 0

StateIsSet(ctx) ==
    \A i \in 1..Len(ctx.tour) :
        /\ IsSome(ctx.state.current[i])
        /\ IsSome(ctx.state.max_past[i])
        /\ IsSome(ctx.state.max_future[i])

\* C19: after recalculate_states on a route with static demands only, under
\* any interval partition, every activity has 0 <= CURRENT <= MAX_PAST and
\* CURRENT <= MAX_FUTURE.
C19_CurrentWithinPastAndFuture ==
    (route_context.accepts > 0 /\ StaticOnly(route_context.tour)) =>
        /\ StateIsSet(route_context)
        /\ \A i \in 1..Len(route_context.tour) :
              /\ 0 <= Unwrap(route_context.state.current[i])
              /\ Unwrap(route_context.state.current[i]) <= Unwrap(route_context.state.max_past[i])
              /\ Unwrap(route_context.state.current[i]) <= Unwrap(route_context.state.max_future[i])

\* a recalculated route of two intervals where the load falls after a pickup
\* and a delivery: CURRENT is positive, below MAX_PAST and equal to MAX_FUTURE
C19_Witness ==
    /\ route_context.accepts > 0
    /\ StaticOnly(route_context.tour)
    /\ IsSome(route_context.intervals)
    /\ Len(Unwrap(route_context.intervals)) = 2
    /\ \E i \in 1..Len(route_context.tour) :
          /\ 0 < Unwrap(route_context.state.current[i])
          /\ Unwrap(route_context.state.current[i]) < Unwrap(route_context.state.max_past[i])
          /\ Unwrap(route_context.state.current[i]) = Unwrap(route_context.state.max_future[i])

MaxCurrent(ctx) == Max({ Unwrap(ctx.state.current[i]) : i \in 1..Len(ctx.tour) })

\* C20: after accept_route_state on a route whose vehicle has a capacity,
\* MAX_LOAD times the capacity equals the maximum of CURRENT over all
\* activities of the route, across all intervals.
C20_MaxLoadIsMaxCurrent ==
    (route_context.accepts > 0 /\ IsSome(route_context.capacity)) =>
        /\ IsSome(route_context.state.max_load)
        /\ Unwrap(route_context.state.max_load)[1] * Unwrap(route_context.capacity)
             = MaxCurrent(route_context) * Unwrap(route_context.state.max_load)[2]

\* a recalculated route of two intervals whose highest load lies in the first
C20_Witness ==
    /\ route_context.accepts > 0
    /\ IsSome(route_context.capacity)
    /\ IsSome(route_context.intervals)
    /\ Len(Unwrap(route_context.intervals)) = 2
    /\ LET second == Unwrap(route_context.intervals)[2]
       IN  \A i \in (second[1] + 1)..(second[2] + 1) :
              Unwrap(route_context.state.current[i]) < MaxCurrent(route_context)
    /\ Unwrap(route_context.state.max_load)[1] > 0

\* C21: accept_route_state called twice in a row by the same module (the
\* capacity module or a generic value constraint) on an unchanged route
\* leaves every route-state and activity-state value as the first call left it.
C21_AcceptRouteStateIdempotent ==
    [][(/\ route_context.last # "none"
        /\ route_context'.last = route_context.last
        /\ route_context'.accepts + route_context'.values
             = route_context.accepts + route_context.values + 1)
       => route_context'.state = route_context.state]_vars

\* the capacity module has recalculated a loaded route of two intervals twice
C21_Witness ==
    /\ route_context.accepts = 2
    /\ IsSome(route_context.intervals)
    /\ Len(Unwrap(route_context.intervals)) = 2
    /\ Unwrap(route_context.state.current[Len(route_context.tour)]) > 0
    /\ IsSome(route_context.state.max_load)

\* the modules that have put a state value, and the keys each has put
WritingModules == { entry[1] : entry \in route_context.written }

WrittenKeys(module) == { entry[2] : entry \in { e \in route_context.written : e[1] = module } }

state_keys(module) ==
    IF module = "capacity" THEN CapacityConstraintModule_state_keys
    ELSE (CHOOSE self \in GenericValueConstraints : self.name = module).keys

\* C22: the keys a module has written are exactly its state_keys(), and no
\* key is written by two modules.
C22_StateKeysAreWrittenKeys ==
    /\ \A module \in WritingModules : WrittenKeys(module) = state_keys(module)
    /\ \A m1, m2 \in WritingModules : m1 # m2 => WrittenKeys(m1) \cap WrittenKeys(m2) = {}

(***************************************************************************)
(* Properties of the capacity constraints.                                 *)
(***************************************************************************)
IsMarkerActivity(activity) == IsSome(activity.job) /\ Unwrap(activity.job).marker

\* the evaluated activity serves a Single that is neither a marker nor a piece of a Multi
IsPlainSingle(activity) ==
    /\ IsSome(activity.job)
    /\ ~Unwrap(activity.job).marker
    /\ ~Unwrap(activity.job).of_multi

\* C23: a marker job is accepted at a position only when the previous
\* activity serves a job and the next activity is absent or serves no job;
\* anywhere else it is rejected with the module's code.
C23_MarkerOnlyAsLastJob ==
    (evaluation.op = "evaluate_activity" /\ IsMarkerActivity(evaluation.target)) =>
        LET tour == route_context.tour
            prev_serves_job == IsSome(tour[evaluation.index + 1].job)
            next_is_job == /\ evaluation.index + 2 <= Len(tour)
                           /\ IsSome(tour[evaluation.index + 2].job)
        IN  /\ (evaluation.result = None) <=> (prev_serves_job /\ ~next_is_job)
            /\ IsSome(evaluation.result) => Unwrap(evaluation.result).code = CapacityCode

\* a marker job accepted behind the last job of a tour that has an end activity
C23_Witness ==
    /\ evaluation.op = "evaluate_activity"
    /\ IsMarkerActivity(evaluation.target)
    /\ evaluation.result = None
    /\ evaluation.index = 1
    /\ Len(route_context.tour) = 3
    /\ route_context.tour[3].job = None

\* the recalculated loads of the route are within the capacity of the vehicle
WithinCapacity(ctx) ==
    /\ IsSome(ctx.capacity)
    /\ \A i \in 1..Len(ctx.tour) :
          /\ 0 <= Unwrap(ctx.state.current[i])
          /\ Unwrap(ctx.state.current[i]) <= Unwrap(ctx.capacity)

\* C24: on a route with static demands whose loads are within the capacity,
\* when the hard activity constraint rejects a single job's demand (a static
\* delivery, a static pickup or a dynamic change) at position i with
\* stopped=true, it rejects the same demand at every later position of the
\* same route.
C24_StoppedIsSoundPruning ==
    (/\ evaluation.op = "evaluate_activity"
     /\ StaticOnly(route_context.tour)
     /\ WithinCapacity(route_context)
     /\ IsPlainSingle(evaluation.target)
     /\ get_demand(evaluation.target) \in { Some(d) : d \in TourDemands }
     /\ IsSome(evaluation.result)
     /\ Unwrap(evaluation.result).stopped) =>
        \A j \in (evaluation.index + 1)..(Len(route_context.tour) - 1) :
            evaluate_activity(route_context,
                ActivityContext_new(route_context, j, evaluation.target)) # None

\* C26: a Multi job is admitted by the hard route constraint exactly when each
\* of its Singles is admitted by some interval of the route, and is rejected
\* with the module's code otherwise.
C26_MultiNeedsEverySingleAdmitted ==
    (evaluation.op = "evaluate_job" /\ evaluation.job.kind = "Multi") =>
        /\ (evaluation.result = None) <=>
              \A i \in 1..Len(evaluation.job.jobs) :
                  can_handle_demand_on_intervals(route_context, evaluation.job.jobs[i].demand, None)
        /\ IsSome(evaluation.result) => Unwrap(evaluation.result).code = CapacityCode

\* what the statement of C30 expects of a demand checked at pivot, with
\* stopped as the flag of the first three rejections
ExpectedViolation(ctx, pivot, demand, stopped) ==
    LET past == get_activity_state_or_default(ctx.state, MAX_PAST_CAPACITY_KEY, pivot)
        future == get_activity_state_or_default(ctx.state, MAX_FUTURE_CAPACITY_KEY, pivot)
        current == get_activity_state_or_default(ctx.state, CURRENT_CAPACITY_KEY, pivot)
        change == demand.pickup[1] + demand.pickup[2] - demand.delivery[1] - demand.delivery[2]
        exceeds(load) == IsSome(ctx.capacity) /\ load > Unwrap(ctx.capacity)
    IN  IF demand.delivery[1] # 0 /\ exceeds(past + demand.delivery[1])
        THEN Some([code |-> CapacityCode, stopped |-> stopped])
        ELSE IF demand.pickup[1] # 0 /\ exceeds(future + demand.pickup[1])
        THEN Some([code |-> CapacityCode, stopped |-> stopped])
        ELSE IF change # 0 /\ exceeds(future + change)
        THEN Some([code |-> CapacityCode, stopped |-> stopped])
        ELSE IF change # 0 /\ exceeds(current + change)
        THEN Some([code |-> CapacityCode, stopped |-> FALSE])
        ELSE None

\* C30 as stated: a Single's demand is rejected with stopped=true when
\* MAX_PAST + delivery, MAX_FUTURE + pickup or MAX_FUTURE + change exceeds the
\* capacity, with stopped=false when only CURRENT + change does, and is not
\* rejected otherwise.
C30_DemandViolationAsStated ==
    (/\ evaluation.op = "evaluate_activity"
     /\ IsPlainSingle(evaluation.target)
     /\ IsSome(get_demand(evaluation.target))) =>
        evaluation.result =
            ExpectedViolation(route_context, evaluation.index,
                              Unwrap(get_demand(evaluation.target)), TRUE)

\* C30 amended: the first three rejections carry stopped = (the route has no
\* markers), and a vehicle without a capacity rejects every demand with that
\* same flag.
C30_DemandViolationAmended ==
    (/\ evaluation.op = "evaluate_activity"
     /\ IsPlainSingle(evaluation.target)
     /\ IsSome(get_demand(evaluation.target))) =>
        evaluation.result =
            IF route_context.capacity = None
            THEN Some([code |-> CapacityCode, stopped |-> ~has_markers(route_context)])
            ELSE ExpectedViolation(route_context, evaluation.index,
                                   Unwrap(get_demand(evaluation.target)),
                                   ~has_markers(route_context))

\* a static pickup rejected with stopped=true on a route without markers
\* because MAX_FUTURE at the pivot plus the pickup exceeds the capacity
C30_Witness ==
    /\ evaluation.op = "evaluate_activity"
    /\ IsPlainSingle(evaluation.target)
    /\ IsSome(get_demand(evaluation.target))
    /\ Unwrap(get_demand(evaluation.target)).delivery = << 0, 0 >>
    /\ Unwrap(get_demand(evaluation.target)).pickup[1] > 0
    /\ ~has_markers(route_context)
    /\ IsSome(route_context.capacity)
    /\ evaluation.result = Some([code |-> CapacityCode, stopped |-> TRUE])

DemandOrZero(demand) == IF IsSome(demand) THEN Unwrap(demand) ELSE Demand_default

\* the sum of two demands in unbounded integers
DemandSum(a, b) ==
    Demand_new(<< a.pickup[1] + b.pickup[1], a.pickup[2] + b.pickup[2] >>,
               << a.delivery[1] + b.delivery[1], a.delivery[2] + b.delivery[2] >>)

MergeableSingles(source, candidate) ==
    /\ source.kind = "Single"
    /\ candidate.kind = "Single"
    /\ ~source.single.marker
    /\ ~candidate.single.marker

\* C25: merge returns Ok exactly when both jobs are Singles, neither a marker
\* job, whose demands (an absent one counting as zero) sum without overflow,
\* the merged job then carries the sum; in every other case it returns Err
\* with the module's code.
C25_MergeOkOnlyWithoutOverflow ==
    evaluation.op = "merge" =>
        LET a == DemandOrZero(evaluation.source.single.demand)
            b == DemandOrZero(evaluation.candidate.single.demand)
        IN  IF /\ MergeableSingles(evaluation.source, evaluation.candidate)
               /\ ~Demand_add_overflows(a, b)
            THEN /\ evaluation.result.kind = "Ok"
                 /\ evaluation.result.job.kind = "Single"
                 /\ DemandOrZero(evaluation.result.job.single.demand) = DemandSum(a, b)
            ELSE evaluation.result = MergeErr(CapacityCode)

(***************************************************************************)
(* Properties of the objectives.                                           *)
(***************************************************************************)
\* C28: the default estimate of an unassigned job depends on its job type
\* only: the break value for a break, 0 for a reload and the default value
\* for a dispatch, pickup, delivery or service job.
C28_UnassignedEstimateByType ==
    evaluation.op = "estimate" =>
        /\ evaluation.job_type = "break" => evaluation.result = evaluation.break_value
        /\ evaluation.job_type = "reload" => evaluation.result = 0
        /\ evaluation.job_type \in {"dispatch", "pickup", "delivery", "service"} =>
              evaluation.result = evaluation.default_value

\* the estimate of a dispatch job with break value 100 and default value 1 is 1
C28_Witness ==
    /\ evaluation.op = "estimate"
    /\ evaluation.job_type = "dispatch"
    /\ evaluation.break_value = 100
    /\ evaluation.default_value = 1
    /\ evaluation.result = 1

\* the two routes of can_calculate_transport_cost
IsTestSolution(routes) ==
    /\ Len(routes) = 2
    /\ routes[1] = [vehicle |-> [fixed |-> 100, per_distance |-> 1, per_time |-> 1],
                    driver |-> [fixed |-> 0, per_distance |-> 1, per_time |-> 1],
                    distance |-> 30, duration |-> 40]
    /\ routes[2] = [vehicle |-> [fixed |-> 100, per_distance |-> 1, per_time |-> 1],
                    driver |-> [fixed |-> 0, per_distance |-> 1, per_time |-> 1],
                    distance |-> 10, duration |-> 11]

\* C29: the total cost of a solution is the sum over its routes of the fixed
\* costs plus distance times the per-distance costs plus duration times the
\* per-time costs of vehicle and driver, unassigned jobs add nothing, and the
\* two routes of the test give 382.
C29_TotalCostIsSumOverRoutes ==
    evaluation.op = "fitness" =>
        LET cost(i) ==
                LET r == evaluation.routes[i]
                IN  r.vehicle.fixed + r.driver.fixed
                      + r.distance * r.vehicle.per_distance + r.distance * r.driver.per_distance
                      + r.duration * r.vehicle.per_time + r.duration * r.driver.per_time
        IN  /\ Len(evaluation.routes) = 0 => evaluation.result = 0
            /\ Len(evaluation.routes) = 1 => evaluation.result = cost(1)
            /\ Len(evaluation.routes) = 2 => evaluation.result = cost(1) + cost(2)
            /\ IsTestSolution(evaluation.routes) => evaluation.result = 382

\* the solution of the test with its one unassigned job costs 382
C29_Witness ==
    /\ evaluation.op = "fitness"
    /\ IsTestSolution(evaluation.routes)
    /\ evaluation.unassigned = 1
    /\ evaluation.result = 382

(***************************************************************************)
(* Properties of the dispatch.                                             *)
(***************************************************************************)
\* no further job can be inserted: the solution of the shift
IsDispatchSolution ==
    \A vehicle \in DispatchVehicles, job \in DispatchJobs, i \in 1..Len(shift.limits) :
        ~can_insert(shift, vehicle, job, i)

\* the tours of the vehicles dispatched in the window of limit i
ToursIn(i) == { Unwrap(shift.tours[v]) : v \in dispatched_in(shift, shift.limits[i]) }

\* C27: the number of tours whose dispatch activity is scheduled inside the
\* window of a limit never exceeds the limit's max; when the limits together
\* admit a vehicle for every job the solution leaves no job unassigned; and
\* the limits of the test (max 2 in [10,12], max 3 in [13,16]) give two tours
\* dispatched in the first window and three in the second, each of 4 stops.
C27_DispatchLimitsHold ==
    /\ \A i \in 1..Len(shift.limits) :
          Cardinality(dispatched_in(shift, shift.limits[i])) <= shift.limits[i].max
    /\ ( /\ IsDispatchSolution
         /\ Len(shift.limits) = 2
         /\ shift.limits[1].max + shift.limits[2].max >= Cardinality(DispatchJobs) )
       => shift.unassigned = {}
    /\ (IsDispatchSolution /\ shift.limits = TestDispatchLimits)
       => /\ Cardinality(dispatched_in(shift, shift.limits[1])) = 2
          /\ Cardinality(dispatched_in(shift, shift.limits[2])) = 3
          /\ \A t \in ToursIn(1) :
                Len(t) = 4 /\ t[1].departure = 9 /\ t[2].arrival = 10 /\ t[2].departure = 12
          /\ \A t \in ToursIn(2) :
                Len(t) = 4 /\ t[1].departure = 12 /\ t[2].arrival = 13 /\ t[2].departure = 16

\* the solution of the test: five tours, two in the first window and three in
\* the second, and no job unassigned
C27_Witness ==
    /\ shift.limits = TestDispatchLimits
    /\ IsDispatchSolution
    /\ shift.unassigned = {}
    /\ \A v \in DispatchVehicles : IsSome(shift.tours[v])
    /\ Cardinality(dispatched_in(shift, shift.limits[1])) = 2
    /\ Cardinality(dispatched_in(shift, shift.limits[2])) = 3

(***************************************************************************)
(* Properties of the messages of RunBranches.                              *)
(***************************************************************************)
\* the rank-0 individuals of a population of fitness values
RankZero(population) == { f \in population : \A g \in population : f <= g }

C33_BuildKeepsGivenTermination ==
    (IsSome(build_result) /\ Unwrap(build_result).ok /\ builder.termination.kind = "Custom") =>
        Unwrap(Unwrap(build_result).config).termination = builder.termination

(***************************************************************************)
(* Properties of GenericValue.                                             *)
(***************************************************************************)
\* C35: fitness returns the f64 stored in the solution state under the state
\* key when there is one and solution_value_fn(solution) otherwise; right
\* after accept_solution_state the stored value is solution_value_fn of the
\* current solution, so fitness is the value of the current routes.
C35_FitnessReadsStoredValue ==
    /\ evaluation.op = "value_fitness" =>
          evaluation.result =
              IF solution_ctx.state # None /\ solution_ctx.state[1].f64
              THEN solution_ctx.state[1].value
              ELSE [nan |-> FALSE, v |-> sum_values(solution_ctx.routes)]
    /\ solution_ctx.last = "accept" =>
          /\ solution_ctx.state =
                << [f64 |-> TRUE, value |-> [nan |-> FALSE, v |-> sum_values(solution_ctx.routes)]] >>
          /\ evaluation.op = "value_fitness" =>
                evaluation.result = [nan |-> FALSE, v |-> sum_values(solution_ctx.routes)]

\* fitness right after accept_solution_state of a solution with two routes
C35_Witness ==
    /\ evaluation.op = "value_fitness"
    /\ solution_ctx.last = "accept"
    /\ Len(solution_ctx.routes) = 2
    /\ evaluation.result = F64(2)

Reverse(order) ==
    IF order = "Less" THEN "Greater" ELSE IF order = "Greater" THEN "Less" ELSE "Equal"

\* C40: for every threshold setting total_order(a, b) is the reverse of
\* total_order(b, a), the relation is transitive, two solutions whose fitness
\* is below the threshold compare Equal, and a solution below the threshold
\* compares Less than one that is not below it.
C40_TotalOrderConsistent ==
    evaluation.op = "total_order" =>
        LET fa == GenericValueObjective_fitness(solution_ctx)
            fb == GenericValueObjective_fitness(evaluation.b)
            below(f) == /\ evaluation.threshold # None
                        /\ f64_lt(f, evaluation.threshold[1])
            le(order) == order \in {"Less", "Equal"}
        IN  /\ evaluation.ab = Reverse(evaluation.ba)
            /\ evaluation.bc = Reverse(evaluation.cb)
            /\ evaluation.ac = Reverse(evaluation.ca)
            /\ evaluation.aa = "Equal"
            /\ (le(evaluation.ab) /\ le(evaluation.bc)) => le(evaluation.ac)
            /\ (evaluation.ab = "Less" /\ le(evaluation.bc)) => evaluation.ac = "Less"
            /\ (le(evaluation.ab) /\ evaluation.bc = "Less") => evaluation.ac = "Less"
            /\ (evaluation.ab = "Equal" /\ evaluation.bc = "Equal") => evaluation.ac = "Equal"
            /\ (below(fa) /\ below(fb)) => evaluation.ab = "Equal"
            /\ (below(fa) /\ ~below(fb)) => (evaluation.ab = "Less" /\ evaluation.ba = "Greater")

\* a is below the threshold, b is at it and c is above it
C40_Witness ==
    /\ evaluation.op = "total_order"
    /\ evaluation.threshold = Some(F64(1))
    /\ GenericValueObjective_fitness(solution_ctx) = F64(0)
    /\ GenericValueObjective_fitness(evaluation.b) = F64(1)
    /\ GenericValueObjective_fitness(evaluation.c) = F64(2)
    /\ evaluation.ab = "Less"
    /\ evaluation.bc = "Less"
    /\ evaluation.ac = "Less"

(***************************************************************************)
(* Properties of the recharge feature.                                     *)
(***************************************************************************)
\* the accumulated distance recalculate_states has recorded at activity idx
RecordedDistance(route_ctx, idx) ==
    IF route_ctx.state[RECHARGE_DISTANCE_KEY][idx + 1] = None THEN 0
    ELSE route_ctx.state[RECHARGE_DISTANCE_KEY][idx + 1][1]

\* C34: is_obsolete_interval(route, left, right) is true exactly when the
\* actor has a distance limit and the sum of the distances the feature has
\* recorded under RECHARGE_DISTANCE_KEY at the end activities of left and
\* right is below the limit; no key besides the feature's own decides it.
C34_ObsoleteByOwnDistance ==
    evaluation.op = "is_obsolete_interval" =>
        evaluation.result =
            (/\ evaluation.route_ctx.limit # None
             /\ RecordedDistance(evaluation.route_ctx, evaluation.left[2])
                  + RecordedDistance(evaluation.route_ctx, evaluation.right[2])
                  < evaluation.route_ctx.limit[1])

(***************************************************************************)
(* Properties shared by the capacity module and WorkBalance.               *)
(***************************************************************************)
\* the intervals recalculate_states has walked
WalkedIntervals(ctx) ==
    IF ctx.intervals = None THEN << << 0, Len(ctx.tour) - 1 >> >> ELSE ctx.intervals[1]

\* C39: after recalculate_states, MAX_FUTURE at the first activity of every
\* interval is the maximum of CURRENT over the activities of that interval;
\* hence the load ratio WorkBalance derives from MAX_FUTURE at the interval
\* starts is MAX_LOAD, the ratio of the capacity module.
C39_MaxFutureAtStartIsIntervalMax ==
    route_context.accepts > 0 =>
        /\ \A k \in 1..Len(WalkedIntervals(route_context)) :
              LET interval == WalkedIntervals(route_context)[k]
                  loads == { route_context.state.current[i][1] :
                               i \in (interval[1] + 1)..(interval[2] + 1) }
              IN  /\ route_context.state.max_future[interval[1] + 1] # None
                  /\ route_context.state.max_future[interval[1] + 1][1] \in loads
                  /\ \A load \in loads : load <= route_context.state.max_future[interval[1] + 1][1]
        /\ route_context.capacity # None =>
              /\ get_load_ratio(route_context) = route_context.state.max_load[1]
              /\ route_context.last = "load_balanced" =>
                    route_context.state.balance_max_load = route_context.state.max_load

\* WorkBalance has taken the load ratio of a recalculated route of two
\* intervals whose highest load is met in the second one, after its start
C39_Witness ==
    /\ route_context.accepts > 0
    /\ route_context.last = "load_balanced"
    /\ route_context.capacity # None
    /\ route_context.intervals # None
    /\ Len(route_context.intervals[1]) = 2
    /\ route_context.state.max_load[1][1] > 0
    /\ LET second == route_context.intervals[1][2]
       IN  /\ second[1] < second[2]
           /\ route_context.state.current[second[1] + 1][1] < route_context.state.max_load[1][1]
           /\ route_context.state.max_future[second[1] + 1][1] = route_context.state.max_load[1][1]
           /\ route_context.state.max_future[1][1] < route_context.state.max_load[1][1]

(***************************************************************************)
(* Properties of the collector of RunBranches.                             *)
(***************************************************************************)
\* C32: collect_individuals counts every message it receives, Some or None,
\* and returns once it has received its budget of messages (MaxChunks stands
\* for the 200 of the code) or earlier only when every sender has been
\* dropped and the channel is empty; it never receives one message more.
C32_CollectorBudget ==
    /\ [](root.chunks <= MaxChunks)
    /\ [][ (Len(channel') < Len(channel) /\ root.pc = "collect")
              => (/\ Len(channel) > 0
                  /\ channel' = Tail(channel)
                  /\ root'.chunks = root.chunks + 1
                  /\ root'.pc = IF root'.chunks = MaxChunks THEN "telemetry" ELSE "collect") ]_vars
    /\ [][ (root.pc = "collect" /\ root'.pc # "collect")
              => \/ root'.chunks = MaxChunks
                 \/ /\ root'.chunks = root.chunks
                    /\ root.chunks < MaxChunks
                    /\ Len(channel) = 0
                    /\ \A b \in Branches : workers[b].pc = "done" ]_vars
    /\ [][ (root.pc # "collect" /\ root'.pc # "collect") => root'.chunks = root.chunks ]_vars

\* the collector has returned on its budget while a worker is still running,
\* and every message it counted was a None
C32_Witness ==
    /\ root.pc = "telemetry"
    /\ root.chunks = MaxChunks
    /\ received = {}
    /\ \E b \in Branches : workers[b].pc \notin {"none", "done"}

\* C36: a worker suspended in send is released with an error once the
\* receiver is dropped and exits; the collector's recv returns None once all
\* workers of the super-generation have exited and the channel is drained;
\* and while the root waits in recv on an empty channel some worker can take
\* a step or the root can: the root never waits while every worker is stuck.
C36_NoOneBlocksForever ==
    /\ \A b \in Branches :
          (workers[b].pc = "send" /\ ~receiver_alive) ~> (workers[b].pc # "send")
    /\ [][ \A b \in Branches :
             (workers[b].pc = "send" /\ ~receiver_alive /\ workers'[b] # workers[b] /\ root' = root)
                => workers'[b].pc = "done" ]_vars
    /\ (root.pc = "collect" /\ Len(channel) = 0 /\ \A b \in Branches : workers[b].pc = "done")
          ~> (root.pc # "collect")
    /\ [](root.pc = "collect" =>
            \/ Len(channel) > 0
            \/ \A b \in Branches : workers[b].pc = "done"
            \/ \E b \in Branches :
                  \/ workers[b].pc \in {"check", "generation"}
                  \/ workers[b].pc = "send" /\ Len(channel) < ChannelCapacity)

\* the collector has returned on its budget and the run has ended while one
\* worker has exited and another is still in its send
C36_Witness ==
    /\ ~receiver_alive
    /\ root.chunks = MaxChunks
    /\ root.pc = "done"
    /\ \E b \in Branches : workers[b].pc = "send"
    /\ \E b \in Branches : workers[b].pc = "done"

\* C37: the statistics.generation of a worker is 1 from its creation on and
\* no step changes it, so with MaxGeneration(n), n > 1, a worker leaves its
\* loop only at a should_stop that the time limit or the quota made true, or
\* at a failed send.
C37_WorkerGenerationStaysOne ==
    /\ [](\A b \in Branches : workers[b].generation = 1)
    /\ [][ MaxGenerations > 1 =>
             \A b \in Branches :
                (workers[b].pc # "done" /\ workers'[b].pc = "done")
                   => \/ workers[b].pc = "check" /\ (time_up \/ outer_quota \/ is_terminated)
                      \/ workers[b].pc = "send" /\ ~receiver_alive ]_vars

\* a worker has completed a generation that improved its population and has
\* passed should_stop again, after the root has counted a generation
C37_Witness ==
    /\ Len(telemetry) >= 1
    /\ \E b \in Branches :
          /\ workers[b].pc = "generation"
          /\ workers[b].generation = 1
          /\ \E f \in workers[b].population : f < MaxFitness


\* every entry of the cache is stored in the sub-map of its key's actor
FiledByActor(cache) ==
    \A m \in MapNames : \A a \in DOMAIN cache[m] : \A k \in DOMAIN cache[m][a] : k[1] = a

\* some entry of the cache, in whatever sub-map, has a key that names the actor
MentionsActor(cache, actor) ==
    \E m \in MapNames : \E a \in DOMAIN cache[m] : \E k \in DOMAIN cache[m][a] : k[1] = actor

\* C38: in every reachable SolutionCache state (and in every projection that
\* clone_only_with returns) each entry stored in the sub-map of actor a has a
\* key whose actor component is a, so after remove(a) no entry's key mentions
\* a; and an evaluate_* step never changes the SolutionCache.
C38_EntriesFiledUnderKeyActor ==
    /\ [](/\ FiledByActor(solution)
          /\ (last.op = "clone_only_with" => FiledByActor(last.result))
          /\ (last.op = "remove" => ~MentionsActor(solution, last.actor)))
    /\ [][last'.op \in EvalOps => solution' = solution]_vars

\* a remove that purged an actor with entries while another actor's stay
C38_Witness ==
    /\ last.op = "remove"
    /\ MentionsActor(Unwrap(last.before), last.actor)
    /\ \E a \in Actors : a # last.actor /\ MentionsActor(solution, a)

====
